---- MODULE Spec2Model ----
(***************************************************************************)
(* Document Index & Hybrid Retrieval Engine of DMSCode (DmsService).       *)
(*                                                                         *)
(* The model follows the TypeScript of src/unnamed/part_004 (DmsService):  *)
(* the in-memory index (documentsCache), the persisted index file          *)
(* (dms-index.json), the filesystem under the documents root, and the      *)
(* asynchronous operations, each cut at its await points: a step of the    *)
(* model is the code that runs between two awaits of one task.             *)
(*                                                                         *)
(* JavaScript objects are references: a DmsDocument lives in `heap`, its   *)
(* tags array in `arrs`; the cache and the suspended tasks hold object     *)
(* ids, so that a task resumed after an await sees (and mutates) the       *)
(* object it captured, whether or not the cache still holds it.            *)
(*                                                                         *)
(* Strings are sequences of one-character strings, so that toLowerCase,    *)
(* includes, startsWith, trim, basename and extname are computed.          *)
(***************************************************************************)
EXTENDS Integers, Sequences, FiniteSets, TLC

\* ------------------------------------------------------------------ bounds

\* tasks that may be suspended at an await at the same time
MaxTasks == 2
\* operations started in one run
MaxOps == 3
\* external changes of the filesystem in one run
MaxEnv == 1
\* longest tag list the model lets addTag / autoTag build
MaxTags == 3
\* filesystem timestamps are 0..MaxTime
MaxTime == 1
\* items in one response of the remote search service
MaxRemote == 2
\* getRecentDocuments is asked for 0..MaxLimit documents
MaxLimit == 2
\* longest list of documents handed to the lexical scorer: one more than the
\* ten results enhancedSearch keeps
MaxDocs == 11
\* lists up to this length mix every kind of document
MaxMixed == 2

\* ------------------------------------------------------------------ strings

Upper == <<"A", "B", "C", "D", "E", "F", "G", "H", "I", "J", "K", "L", "M",
           "N", "O", "P", "Q", "R", "S", "T", "U", "V", "W", "X", "Y", "Z">>
Lower == <<"a", "b", "c", "d", "e", "f", "g", "h", "i", "j", "k", "l", "m",
           "n", "o", "p", "q", "r", "s", "t", "u", "v", "w", "x", "y", "z">>

\* String.prototype.toLowerCase on one character
LowerChar(c) ==
    IF \E i \in 1..Len(Upper) : Upper[i] = c
    THEN Lower[CHOOSE i \in 1..Len(Upper) : Upper[i] = c]
    ELSE c

\* String.prototype.toLowerCase
ToLowerCase(s) == [i \in 1..Len(s) |-> LowerChar(s[i])]

\* String.prototype.startsWith
StartsWith(s, pre) ==
    /\ Len(pre) <= Len(s)
    /\ SubSeq(s, 1, Len(pre)) = pre

\* String.prototype.endsWith
EndsWith(s, suf) ==
    /\ Len(suf) <= Len(s)
    /\ SubSeq(s, Len(s) - Len(suf) + 1, Len(s)) = suf

\* String.prototype.indexOf, 0-based, -1 when absent
IndexOf(s, t) ==
    LET hits == {i \in 1..(Len(s) - Len(t) + 1) : SubSeq(s, i, i + Len(t) - 1) = t}
    IN  IF hits = {} THEN -1
        ELSE (CHOOSE i \in hits : \A j \in hits : i <= j) - 1

\* String.prototype.includes
Includes(s, t) == IndexOf(s, t) # -1

\* String.prototype.lastIndexOf of one character, 0-based, -1 when absent
LastIndexOfChar(s, c) ==
    LET hits == {i \in 1..Len(s) : s[i] = c}
    IN  IF hits = {} THEN -1
        ELSE (CHOOSE i \in hits : \A j \in hits : i >= j) - 1

IsSpace(c) == c = " "

\* String.prototype.trim
Trim(s) ==
    LET keep == {i \in 1..Len(s) : ~IsSpace(s[i])}
    IN  IF keep = {} THEN <<>>
        ELSE SubSeq(s, CHOOSE i \in keep : \A j \in keep : i <= j,
                       CHOOSE i \in keep : \A j \in keep : i >= j)

\* String.prototype.substring(from) with a 0-based start
SubstringFrom(s, from) == SubSeq(s, from + 1, Len(s))

\* String.prototype.substring(from, to), 0-based, end exclusive
Substring(s, from, to) == SubSeq(s, from + 1, to)

\* Array.prototype.includes on a sequence
SeqIncludes(seq, x) == \E i \in 1..Len(seq) : seq[i] = x

\* Array.prototype.indexOf on a sequence, 1-based, 0 when absent
SeqIndexOf(seq, x) ==
    IF SeqIncludes(seq, x)
    THEN CHOOSE i \in 1..Len(seq) : seq[i] = x /\ \A j \in 1..(i - 1) : seq[j] # x
    ELSE 0

SeqToSet(seq) == {seq[i] : i \in 1..Len(seq)}

NoDuplicates(seq) == \A i, j \in 1..Len(seq) : seq[i] = seq[j] => i = j

\* ------------------------------------------------------------------ paths

\* path.basename
Basename(p) == SubstringFrom(p, LastIndexOfChar(p, "/") + 1)

\* path.dirname of a file directly under a directory ("/" for the root)
Dirname(p) ==
    LET i == LastIndexOfChar(p, "/")
    IN  IF i <= 0 THEN <<"/">> ELSE Substring(p, 0, i)

\* path.join(dir, name)
PathJoin(dir, name) ==
    IF dir = <<"/">> THEN dir \o name ELSE dir \o <<"/">> \o name

\* path.extname: from the last "." of the base name, "" when there is none
\* or when the name starts with its only dot
Extname(p) ==
    LET b == Basename(p)
        i == LastIndexOfChar(b, ".")
    IN  IF i <= 0 THEN <<>> ELSE SubstringFrom(b, i)

SupportedExtensions ==
    { <<".", "p", "d", "f">>, <<".", "d", "o", "c", "x">>, <<".", "d", "o", "c">>,
      <<".", "t", "x", "t">>, <<".", "m", "d">>, <<".", "e", "p", "u", "b">>,
      <<".", "p", "n", "g">>, <<".", "j", "p", "g">>, <<".", "j", "p", "e", "g">>,
      <<".", "t", "i", "f", "f">> }

isSupportedFile(filename) == ToLowerCase(Extname(filename)) \in SupportedExtensions

\* the documents root and the file names of the model
DocsPath == <<"/">>
NameA == <<"a", "b", ".", "t", "x", "t">>
NameB == <<"c", "d", ".", "t", "x", "t">>
NameX == <<"a", "b", ".", "e", "x", "e">>
FileNames == {NameA, NameB, NameX}
Paths == {PathJoin(DocsPath, n) : n \in FileNames}
PathA == PathJoin(DocsPath, NameA)
PathB == PathJoin(DocsPath, NameB)
PathX == PathJoin(DocsPath, NameX)

\* a fixed order of the paths: the order readdirSync lists them in
PathOrder == <<PathA, PathX, PathB>>

\* Buffer.from(path).toString("base64"): an injective encoding
Base64(p) == <<"#">> \o p
\* an id that is not the encoding of any path of the model
BadId == <<"#", "?">>
Ids == {Base64(p) : p \in {PathA, PathB}} \cup {BadId}

\* Buffer.from(id, "base64").toString("utf-8")
getPathFromId(id) == Tail(id)

\* ------------------------------------------------------------------ data

\* tag values: two that differ only in letter case
TagLo == <<"a", "b">>
TagUp == <<"A", "b">>
Tags == {TagLo, TagUp}

\* doc.ocrText === undefined
Undefined == <<"undefined">>
\* the text the OCR service extracts
OcrSample == <<"x", " ", "A", "B", " ", "y">>

Times == 0..MaxTime

\* fs.existsSync / fs.statSync of one path
NoFile == [exists |-> FALSE, birthtime |-> 0, mtime |-> 0]
FileStat(b, m) == [exists |-> TRUE, birthtime |-> b, mtime |-> m]

VARIABLES
    fs,           \* the files under the documents root: path -> stat
    cache,        \* documentsCache: Map<path, DmsDocument>, as path -> object id
    heap,         \* the DmsDocument objects: object id -> fields (tags: an array id)
    arrs,         \* the tags arrays: array id -> sequence of tags
    disk,         \* dms-index.json: path -> serialized record
    file,         \* "whole", or "torn": the process stopped while writing disk
    gstate,       \* globalState "documentsCache": the backup copy of the index
    up,           \* the extension host is running
    writeFailed,  \* the last write of dms-index.json threw (and was only logged)
    task,         \* the calls suspended at an await: slot -> task
    last,         \* what the call that returned last returned or threw
    rt,           \* observer: an addTag directly followed by a removeTag
    chat,         \* the chat turn DmsAssistant.handleGeneral is working on
    batch,        \* per slot: the progress and cancellation token of a batch command
    faults,       \* whether writes of the index file may fail in this run
    nOps,         \* operations started so far
    nEnv          \* external events so far (file changes, write faults)

vars == <<fs, cache, heap, arrs, disk, file, gstate, up, writeFailed, task, last, rt, chat,
          batch,
          faults, nOps, nEnv>>

Slots == 1..MaxTasks

\* the smallest id not in use
FreshId(used) == CHOOSE i \in 1..(Cardinality(used) + 1) : i \notin used

\* Map.prototype.get: 0 stands for undefined
CacheGet(c, p) == IF p \in DOMAIN c THEN c[p] ELSE 0

\* Map.prototype.delete
CacheDelete(c, p) == [q \in DOMAIN c \ {p} |-> c[q]]

\* a Map.prototype.set that stores nothing
CacheSetNothing(c, p, o) ==
    c

\* Map.prototype.set
CacheSet(c, p, o) ==
    [q \in DOMAIN c \cup {p} |-> IF q = p THEN o ELSE c[q]]

\* the memory of the service: what the code between two awaits reads and writes
Mem == [fs |-> fs, cache |-> cache, heap |-> heap, arrs |-> arrs,
        disk |-> disk, file |-> file, gstate |-> gstate, up |-> up,
        writeFailed |-> writeFailed]

\* doc.tags of object o
TagsOf(m, o) == m.arrs[m.heap[o].tags]

\* a Date object of the instant t
Date(t) == [time |-> t]

\* Date.prototype.toJSON: an ISO-8601 string
ToISOString(d) == [iso |-> d.time]

\* a date field under JSON.stringify: a Date is written as its ISO string, a
\* string as it is
JsonDate(x) == IF "time" \in DOMAIN x THEN ToISOString(x) ELSE x

\* JSON.stringify of one DmsDocument: dates become ISO strings, the tags
\* array is written by value, an undefined ocrText is left out
ToJson(m, o) ==
    LET d == m.heap[o]
    IN  [id |-> d.id, name |-> d.name, path |-> d.path, type |-> d.type,
         tags |-> m.arrs[d.tags],
         createdAt |-> JsonDate(d.createdAt),
         modifiedAt |-> JsonDate(d.modifiedAt),
         ocrText |-> d.ocrText]

\* JSON.stringify(Object.fromEntries(this.documentsCache))
Serialize(m) == [p \in DOMAIN m.cache |-> ToJson(m, m.cache[p])]

\* a saveDocumentsCache that reports success and leaves the index file alone
saveDocumentsCacheNoWrite(m, w) ==
    [m EXCEPT !.writeFailed = FALSE]

\* saveDocumentsCache: fs.writeFileSync writes the index file in place; a
\* write error is caught and logged; globalState is updated in either case.
\* When the process stops inside writeFileSync the file is left with a part
\* of the new text and nothing after the write runs.
saveDocumentsCache(m, w) ==
    CASE w = "ok" ->
           [m EXCEPT !.disk = Serialize(m), !.file = "whole", !.writeFailed = FALSE,
                     !.gstate = Serialize(m)]
      [] w = "fail" ->
           [m EXCEPT !.writeFailed = TRUE, !.gstate = Serialize(m)]
      [] OTHER ->
           [m EXCEPT !.disk = Serialize(m), !.file = "torn", !.up = FALSE]

\* String.prototype.replace(".", ""): the first dot is removed
RemoveFirstDot(s) ==
    LET i == IndexOf(s, <<".">>)
    IN  IF i = -1 THEN s ELSE Substring(s, 0, i) \o SubstringFrom(s, i + 1)

\* createDocumentEntry: a new object built from fs.statSync (the caller has
\* checked that the file exists, statSync throws otherwise)
createDocumentEntry(m, filePath) ==
    LET o == FreshId(DOMAIN m.heap)
        a == FreshId(DOMAIN m.arrs)
        stats == m.fs[filePath]
        ext == ToLowerCase(Extname(filePath))
        doc == [id |-> Base64(filePath), name |-> Basename(filePath),
                path |-> filePath, type |-> RemoveFirstDot(ext),
                tags |-> a, createdAt |-> Date(stats.birthtime),
                modifiedAt |-> Date(stats.mtime), ocrText |-> Undefined]
    IN  [m |-> [m EXCEPT !.heap = (o :> doc) @@ m.heap,
                         !.arrs = (a :> <<>>) @@ m.arrs],
         doc |-> o]

\* ------------------------------------------------------------------ tasks

\* a slot with no suspended call
IdleTask == [op |-> "idle", pc |-> "idle", path |-> <<>>, tag |-> <<>>,
             query |-> <<>>, remote |-> "none", held |-> 0, doc |-> 0,
             files |-> <<>>, documents |-> <<>>, limit |-> 0]

\* before any call has returned
NoCall == [op |-> "none", outcome |-> "ok", path |-> <<>>, tag |-> <<>>,
           found |-> FALSE, fired |-> FALSE, query |-> <<>>, remote |-> "none",
           count |-> 0, result |-> <<>>, scanned |-> <<>>, response |-> <<>>]

\* the object ids a suspended task holds
TaskRefs(t) == ({t.doc, t.held} \cup SeqToSet(t.documents)) \ {0}

\* a batch command that has not started an item and was not cancelled
NoBatch == [cancelled |-> FALSE, started |-> <<>>, success |-> 0, failed |-> 0,
            errors |-> 0]

\* no addTag / removeTag pair and no rename is under observation
NoRt == [stage |-> "none", path |-> <<>>, tag |-> <<>>, before |-> <<>>, after |-> <<>>,
         twice |-> FALSE, first |-> <<>>, to |-> <<>>, doc |-> <<>>, events |-> {}]

\* one step of one task ends: the objects nothing refers to any more are
\* dropped (garbage collection), the variables take their new values
CommitAll(m, t, l, ops, env, r, b) ==
    LET live == IF m.up
                THEN {m.cache[p] : p \in DOMAIN m.cache}
                         \cup UNION {TaskRefs(t[i]) : i \in Slots}
                ELSE {}
        used == {m.heap[o].tags : o \in live}
    IN  /\ fs' = m.fs
        /\ cache' = IF m.up THEN m.cache ELSE <<>>
        /\ heap' = [o \in live |-> m.heap[o]]
        /\ arrs' = [a \in used |-> m.arrs[a]]
        /\ disk' = m.disk
        /\ file' = m.file
        /\ gstate' = m.gstate
        /\ up' = m.up
        /\ writeFailed' = m.writeFailed
        /\ task' = IF m.up THEN t ELSE [i \in Slots |-> IdleTask]
        /\ last' = IF m.up THEN l ELSE last
        /\ nOps' = ops
        /\ nEnv' = env
        /\ rt' = r
        /\ chat' = chat
        /\ batch' = b
        /\ faults' = faults

\* a step that leaves the batch commands' progress alone
CommitRt(m, t, l, ops, env, r) == CommitAll(m, t, l, ops, env, r, batch)

\* a step of anything else ends the observation
Commit(m, t, l, ops, env) == CommitRt(m, t, l, ops, env, NoRt)

\* a call may start in slot i: the first free slot, within the run's budget
CanStart(i) ==
    /\ up
    /\ nOps < MaxOps
    /\ task[i] = IdleTask
    /\ \A j \in Slots : j < i => task[j] # IdleTask

\* how this write of the index file ends: it succeeds, it throws, or the
\* process stops in it; the last two are external events
WriteOutcomes == {"ok"} \cup (IF faults /\ nEnv < MaxEnv THEN {"fail", "stop"} ELSE {})
EnvAfter(w) == IF w = "ok" THEN nEnv ELSE nEnv + 1

\* the call in slot i is suspended at pc
Suspend(i, t) == [task EXCEPT ![i] = t]
\* the call in slot i has returned or thrown
Finish(i) == [task EXCEPT ![i] = IdleTask]

\* ------------------------------------------------------------------ watcher
\* Every handler and operation ends with `await this.saveDocumentsCache()`
\* followed by code that touches nothing of the index (a notification is
\* fired, a value returned): that tail is taken in the step of the save.

\* what a watcher handler reports when it returns or throws
WatcherCall(op, p, found, outcome, fired) ==
    [NoCall EXCEPT !.op = op, !.path = p, !.found = found, !.outcome = outcome,
                   !.fired = fired]

\* renameDocument has moved the record of oldPath, as it was in doc, to newPath
Renamed(oldPath, newPath, doc) ==
    [NoRt EXCEPT !.stage = "renamed", !.path = oldPath, !.to = newPath, !.doc = doc]

\* the watcher reports the rename under observation: a create of the new
\* path or a delete of the old one; any other event ends the observation
Watched(kind, p) ==
    IF rt.stage = "renamed" /\ p = (IF kind = "delete" THEN rt.path ELSE rt.to)
    THEN [rt EXCEPT !.events = @ \cup {kind}]
    ELSE NoRt

\* a create handler that does not look into the cache
AlreadyInCacheIgnored(c, p) ==
    FALSE

\* this.documentsCache.has(uri.fsPath) in onDidCreate
AlreadyInCache(c, p) ==
    p \in DOMAIN c

\* fileWatcher.onDidCreate up to its await: the supported-file and not-in-cache
\* checks, then createDocumentEntry (fs.statSync throws when the file is gone)
onDidCreate(i, p) ==
    /\ CanStart(i)
    /\ IF ~isSupportedFile(p) \/ AlreadyInCache(cache, p)
       THEN CommitRt(Mem, task,
                     WatcherCall("onDidCreate", p, p \in DOMAIN cache, "ok", FALSE),
                     nOps + 1, nEnv, Watched("create", p))
       ELSE IF ~fs[p].exists
       THEN CommitRt(Mem, task, WatcherCall("onDidCreate", p, FALSE, "ENOENT", FALSE),
                     nOps + 1, nEnv, Watched("create", p))
       ELSE LET c == createDocumentEntry(Mem, p)
            IN  CommitRt(c.m,
                         Suspend(i, [IdleTask EXCEPT !.op = "onDidCreate",
                                        !.pc = "created", !.path = p, !.doc = c.doc]),
                         last, nOps + 1, nEnv, Watched("creating", p))

\* onDidCreate after `await createDocumentEntry`: the entry is set, the index
\* saved, the notification fired
onDidCreateInsert(i) ==
    /\ task[i].op = "onDidCreate" /\ task[i].pc = "created"
    /\ \E w \in WriteOutcomes :
        LET m1 == [Mem EXCEPT !.cache = CacheSet(cache, task[i].path, task[i].doc)]
        IN  CommitRt(saveDocumentsCache(m1, w), Finish(i),
                     WatcherCall("onDidCreate", task[i].path, FALSE, "ok", TRUE),
                     nOps, EnvAfter(w),
                     IF "creating" \in rt.events /\ task[i].path = rt.to
                     THEN [rt EXCEPT !.events = (@ \ {"creating"}) \cup {"create"}]
                     ELSE NoRt)

\* fileWatcher.onDidDelete
onDidDelete(i, p) ==
    /\ CanStart(i)
    /\ IF p \in DOMAIN cache
       THEN \E w \in WriteOutcomes :
            LET m1 == [Mem EXCEPT !.cache = CacheDelete(cache, p)]
            IN  CommitRt(saveDocumentsCache(m1, w), task,
                         WatcherCall("onDidDelete", p, TRUE, "ok", TRUE),
                         nOps + 1, EnvAfter(w), Watched("delete", p))
       ELSE CommitRt(Mem, task, WatcherCall("onDidDelete", p, FALSE, "ok", FALSE),
                     nOps + 1, nEnv, Watched("delete", p))

\* a change handler that refreshes the creation date as well
ChangedDocumentBothDates(doc, stats) ==
    [doc EXCEPT !.modifiedAt = Date(stats.mtime), !.createdAt = Date(stats.birthtime)]

\* doc.modifiedAt = stats.mtime
ChangedDocument(doc, stats) ==
    [doc EXCEPT !.modifiedAt = Date(stats.mtime)]

\* fileWatcher.onDidChange
onDidChange(i, p) ==
    /\ CanStart(i)
    /\ IF ~isSupportedFile(p) \/ p \notin DOMAIN cache
       THEN Commit(Mem, task, WatcherCall("onDidChange", p, FALSE, "ok", FALSE),
                   nOps + 1, nEnv)
       ELSE IF ~fs[p].exists
       THEN Commit(Mem, task, WatcherCall("onDidChange", p, TRUE, "ENOENT", FALSE),
                   nOps + 1, nEnv)
       ELSE \E w \in WriteOutcomes :
            LET m1 == [Mem EXCEPT !.heap[cache[p]] = ChangedDocument(@, fs[p])]
            IN  Commit(saveDocumentsCache(m1, w), task,
                       WatcherCall("onDidChange", p, TRUE, "ok", TRUE),
                       nOps + 1, EnvAfter(w))

\* ------------------------------------------------------------------ tags

\* doc.tags.push(tag): the array is changed in place
TagsPush(m, o, tag) == [m EXCEPT !.arrs[m.heap[o].tags] = Append(@, tag)]

\* a filter that keeps nothing
TagsFilterAll(m, o, tag) ==
    LET a == FreshId(DOMAIN m.arrs)
    IN  [m EXCEPT !.arrs = (a :> <<>>) @@ m.arrs, !.heap[o].tags = a]

\* doc.tags = doc.tags.filter((t) => t !== tag): a new array is assigned
TagsFilterOut(m, o, tag) ==
    LET a == FreshId(DOMAIN m.arrs)
    IN  [m EXCEPT !.arrs = (a :> SelectSeq(TagsOf(m, o), LAMBDA t : t # tag)) @@ m.arrs,
                  !.heap[o].tags = a]

\* doc.tags[doc.tags.indexOf(oldTag)] = newTag, when oldTag is in the array
TagsReplaceFirst(m, o, oldTag, newTag) ==
    LET k == SeqIndexOf(TagsOf(m, o), oldTag)
    IN  IF k = 0 THEN m ELSE [m EXCEPT !.arrs[m.heap[o].tags][k] = newTag]

\* the paths of the cache in PathOrder: the order the loops visit them in
\* (the effect of a loop body on one record does not depend on the others)
CachePaths(c) == SelectSeq(PathOrder, LAMBDA p : p \in DOMAIN c)

\* what the tag operations report when they return
TagCall(op, p, tag, found, n) ==
    [NoCall EXCEPT !.op = op, !.path = p, !.tag = tag, !.found = found, !.count = n]

\* the observer of an addTag on a tracked record
\* (twice: the step before was an addTag of the same tag to the same record,
\* which left the tags `first`)
Added(p, tag, before, after) ==
    LET twice == rt.stage = "added" /\ rt.path = p /\ rt.tag = tag
    IN  [stage |-> "added", path |-> p, tag |-> tag, before |-> before, after |-> after,
         twice |-> twice, first |-> IF twice THEN rt.after ELSE <<>>,
         to |-> <<>>, doc |-> <<>>, events |-> {}]

\* an includes that never finds the tag
HasTagNever(m, doc, tag) == FALSE

\* doc.tags.includes(tag)
HasTag(m, doc, tag) ==
    SeqIncludes(TagsOf(m, doc), tag)

\* addTagToDocument
addTagToDocument(i, documentId, tag) ==
    /\ CanStart(i)
    /\ LET p == getPathFromId(documentId)
           doc == CacheGet(cache, p)
       IN  IF doc # 0 /\ ~HasTag(Mem, doc, tag)
           THEN /\ Len(TagsOf(Mem, doc)) < MaxTags
                /\ \E w \in WriteOutcomes :
                    LET m1 == TagsPush(Mem, doc, tag)
                    IN  CommitRt(saveDocumentsCache(m1, w), task,
                                 TagCall("addTag", p, tag, TRUE, 0),
                                 nOps + 1, EnvAfter(w),
                                 Added(p, tag, TagsOf(Mem, doc), TagsOf(m1, doc)))
           ELSE CommitRt(Mem, task, TagCall("addTag", p, tag, doc # 0, 0),
                         nOps + 1, nEnv,
                         IF doc = 0 THEN NoRt
                         ELSE Added(p, tag, TagsOf(Mem, doc), TagsOf(Mem, doc)))

\* removeTagFromDocument
removeTagFromDocument(i, documentId, tag) ==
    /\ CanStart(i)
    /\ LET p == getPathFromId(documentId)
           doc == CacheGet(cache, p)
       IN  IF doc # 0
           THEN \E w \in WriteOutcomes :
                    LET m1 == TagsFilterOut(Mem, doc, tag)
                    IN  CommitRt(saveDocumentsCache(m1, w), task,
                                 TagCall("removeTag", p, tag, TRUE, 0),
                                 nOps + 1, EnvAfter(w),
                                 IF rt.stage = "added" /\ rt.path = p /\ rt.tag = tag
                                 THEN [rt EXCEPT !.stage = "removed",
                                                 !.after = TagsOf(m1, doc)]
                                 ELSE NoRt)
           ELSE Commit(Mem, task, TagCall("removeTag", p, tag, FALSE, 0),
                       nOps + 1, nEnv)

\* the loop of renameTag over documentsCache.values()
RECURSIVE renameTagLoop(_, _, _, _)
renameTagLoop(m, paths, oldTag, newTag) ==
    IF paths = <<>> THEN [m |-> m, count |-> 0]
    ELSE LET doc == m.cache[Head(paths)]
             hit == SeqIncludes(TagsOf(m, doc), oldTag)
             rest == renameTagLoop(TagsReplaceFirst(m, doc, oldTag, newTag),
                                   Tail(paths), oldTag, newTag)
         IN  [m |-> rest.m, count |-> rest.count + (IF hit THEN 1 ELSE 0)]

\* renameTag
renameTag(i, oldTag, newTag) ==
    /\ CanStart(i)
    /\ LET r == renameTagLoop(Mem, CachePaths(cache), oldTag, newTag)
           l == [TagCall("renameTag", <<>>, oldTag, r.count > 0, r.count)
                   EXCEPT !.query = newTag]
       IN  IF r.count > 0
           THEN \E w \in WriteOutcomes :
                    Commit(saveDocumentsCache(r.m, w), task, l, nOps + 1, EnvAfter(w))
           ELSE Commit(Mem, task, l, nOps + 1, nEnv)

\* the loop of deleteTag over documentsCache.values()
RECURSIVE deleteTagLoop(_, _, _)
deleteTagLoop(m, paths, tag) ==
    IF paths = <<>> THEN [m |-> m, count |-> 0]
    ELSE LET doc == m.cache[Head(paths)]
             hit == SeqIncludes(TagsOf(m, doc), tag)
             rest == deleteTagLoop(IF hit THEN TagsFilterOut(m, doc, tag) ELSE m,
                                   Tail(paths), tag)
         IN  [m |-> rest.m, count |-> rest.count + (IF hit THEN 1 ELSE 0)]

\* deleteTag
deleteTag(i, tag) ==
    /\ CanStart(i)
    /\ LET r == deleteTagLoop(Mem, CachePaths(cache), tag)
           l == TagCall("deleteTag", <<>>, tag, r.count > 0, r.count)
       IN  IF r.count > 0
           THEN \E w \in WriteOutcomes :
                    Commit(saveDocumentsCache(r.m, w), task, l, nOps + 1, EnvAfter(w))
           ELSE Commit(Mem, task, l, nOps + 1, nEnv)

\* ------------------------------------------------------------------ scan

\* scanDirectory(docsPath): the supported files under the root, as listed
scanDirectory(files) == SelectSeq(PathOrder, LAMBDA p : files[p].exists /\ isSupportedFile(p))

\* a DmsDocument as a caller reads it: its fields, the tags by value
DocView(m, o) == [m.heap[o] EXCEPT !.tags = m.arrs[m.heap[o].tags]]
DocViews(m, os) == [k \in 1..Len(os) |-> DocView(m, os[k])]

\* the loop of getDocuments from one await to the next: tracked files are
\* reused; at the first untracked file createDocumentEntry is called (its
\* statSync throws when the file has gone since it was listed) and awaited
RECURSIVE getDocumentsLoop(_, _, _)
getDocumentsLoop(m, files, documents) ==
    IF files = <<>>
    THEN [m |-> m, files |-> files, documents |-> documents, doc |-> 0, status |-> "end"]
    ELSE LET existing == CacheGet(m.cache, Head(files))
         IN  IF existing # 0
             THEN getDocumentsLoop(m, Tail(files), Append(documents, existing))
             ELSE IF ~m.fs[Head(files)].exists
             THEN [m |-> m, files |-> files, documents |-> documents, doc |-> 0,
                   status |-> "throw"]
             ELSE LET c == createDocumentEntry(m, Head(files))
                  IN  [m |-> c.m, files |-> files, documents |-> documents,
                       doc |-> c.doc, status |-> "await"]

\* what a call reports when the getDocuments inside it throws
ScanThrew(t) == [NoCall EXCEPT !.op = t.op, !.outcome = "ENOENT", !.path = t.path,
                               !.tag = t.tag, !.query = t.query, !.found = TRUE,
                               !.remote = t.remote]

\* what getDocuments reports when it is called on its own and returns
ScanCall(m, documents) ==
    [NoCall EXCEPT !.op = "getDocuments", !.found = TRUE,
                   !.scanned = DocViews(m, documents)]

\* getDocuments runs on from memory m for the call t of slot i until its next
\* await (`await createDocumentEntry`), or to its end: the index is saved and
\* the list returned; a caller that goes on with the list does so in a step
\* of its own
getDocumentsRun(i, m, t, files, documents, ops) ==
    LET r == getDocumentsLoop(m, files, documents)
    IN  CASE r.status = "await" ->
               Commit(r.m, Suspend(i, [t EXCEPT !.pc = "scan", !.files = r.files,
                                          !.documents = r.documents, !.doc = r.doc]),
                      last, ops, nEnv)
          [] r.status = "throw" ->
               Commit(r.m, Finish(i), ScanThrew(t), ops, nEnv)
          [] OTHER ->
               \E w \in WriteOutcomes :
                   LET m1 == saveDocumentsCache(r.m, w)
                   IN  IF t.op = "getDocuments"
                       THEN Commit(m1, Finish(i), ScanCall(m1, r.documents),
                                   ops, EnvAfter(w))
                       ELSE Commit(m1,
                                   Suspend(i, [t EXCEPT !.pc = "scanned", !.files = <<>>,
                                                  !.documents = r.documents, !.doc = 0]),
                                   last, ops, EnvAfter(w))

\* getDocuments is called on its own (a tree view, a command)
getDocuments(i) ==
    /\ CanStart(i)
    /\ getDocumentsRun(i, Mem, [IdleTask EXCEPT !.op = "getDocuments"],
                       scanDirectory(fs), <<>>, nOps + 1)

\* getDocuments after `await this.createDocumentEntry(file)`:
\* documents.push(doc); this.documentsCache.set(file, doc); the loop goes on
getDocumentsInsert(i) ==
    /\ task[i].pc = "scan"
    /\ LET t == task[i]
           m1 == [Mem EXCEPT !.cache = CacheSet(cache, Head(t.files), t.doc)]
       IN  getDocumentsRun(i, m1, t, Tail(t.files), Append(t.documents, t.doc), nOps)

\* what getDocumentCount reports when it returns
CountCall(n) ==
    [NoCall EXCEPT !.op = "getDocumentCount", !.found = TRUE, !.count = n]

\* getDocumentCount up to the first await inside `await this.getDocuments()`
getDocumentCount(i) ==
    /\ CanStart(i)
    /\ getDocumentsRun(i, Mem, [IdleTask EXCEPT !.op = "getDocumentCount"],
                       scanDirectory(fs), <<>>, nOps + 1)

\* getDocumentCount after getDocuments has returned: docs.length
getDocumentCountReturn(i) ==
    /\ task[i].op = "getDocumentCount" /\ task[i].pc = "scanned"
    /\ Commit(Mem, Finish(i), CountCall(Len(task[i].documents)), nOps, nEnv)

\* ------------------------------------------------------------------ rename

\* what renameDocument / autoRenameDocument report when they return or throw
RenameCall(op, p, found, outcome, fired) ==
    [NoCall EXCEPT !.op = op, !.path = p, !.found = found, !.outcome = outcome,
                   !.fired = fired]

\* a renamed document whose path field is left as it was
RenamedDocumentOldPath(doc, newPath, newFilename, now) ==
    [doc EXCEPT !.id = Base64(newPath), !.name = newFilename, !.modifiedAt = Date(now)]

\* { ...doc, id, name: newFilename, path: newPath, modifiedAt: new Date() }:
\* a new object; the tags array is the old object's
RenamedDocument(doc, newPath, newFilename, now) ==
    [doc EXCEPT !.id = Base64(newPath), !.name = newFilename, !.path = newPath,
                !.modifiedAt = Date(now)]

\* renameDocument, called as `op` from slot i: the two existsSync checks,
\* fs.renameSync, the cache entry moved to the new path with a new id, name,
\* path and modifiedAt, the index saved, the notification fired
renameDocumentRun(i, op, oldPath, newFilename, ops) ==
    LET newPath == PathJoin(Dirname(oldPath), newFilename)
        oldDoc == CacheGet(cache, oldPath)
    IN  IF ~fs[oldPath].exists
        THEN Commit(Mem, Finish(i),
                    RenameCall(op, oldPath, oldDoc # 0, "FILE_NOT_FOUND", FALSE), ops, nEnv)
        ELSE IF fs[newPath].exists
        THEN Commit(Mem, Finish(i),
                    RenameCall(op, oldPath, oldDoc # 0, "INVALID_DOCUMENT", FALSE), ops, nEnv)
        ELSE LET m1 == [Mem EXCEPT !.fs[newPath] = fs[oldPath], !.fs[oldPath] = NoFile]
             IN  IF oldDoc = 0
                 THEN Commit(m1, Finish(i), RenameCall(op, oldPath, FALSE, "ok", FALSE),
                             ops, nEnv)
                 ELSE \E now \in Times, w \in WriteOutcomes :
                      LET o == FreshId(DOMAIN heap)
                          newDoc == RenamedDocument(heap[oldDoc], newPath, newFilename, now)
                          m2 == [m1 EXCEPT !.heap = (o :> newDoc) @@ heap,
                                           !.cache = CacheSet(CacheDelete(cache, oldPath),
                                                              newPath, o)]
                      IN  CommitRt(saveDocumentsCache(m2, w), Finish(i),
                                   RenameCall(op, oldPath, TRUE, "ok", TRUE),
                                   ops, EnvAfter(w),
                                   Renamed(oldPath, newPath, DocView(Mem, oldDoc)))

\* renameDocument(oldPath, newFilename) is called
renameDocument(i, oldPath, newFilename) ==
    /\ CanStart(i)
    /\ renameDocumentRun(i, "renameDocument", oldPath, newFilename, nOps + 1)

\* runOcrFallback: a .txt or .md file is read (readFileSync throws when it is
\* gone), a PDF is loaded and an image named in a notice, anything else is
\* refused; a PDF that cannot be read falls through to the refusal
runOcrFallback(files, p) ==
    LET ext == ToLowerCase(Extname(p))
    IN  IF ext \in {<<".", "t", "x", "t">>, <<".", "m", "d">>}
        THEN (IF files[p].exists THEN "text" ELSE "ENOENT")
        ELSE IF ext = <<".", "p", "d", "f">> /\ files[p].exists THEN "text"
        ELSE IF ext \in {<<".", "p", "n", "g">>, <<".", "j", "p", "g">>,
                         <<".", "j", "p", "e", "g">>, <<".", "t", "i", "f", "f">>,
                         <<".", "b", "m", "p">>}
        THEN "text"
        ELSE "INVALID_DOCUMENT"

\* autoRenameDocument up to its first await: the lookup; with less than 50
\* characters of OCR text the file is read by runOcrFallback (an error there
\* leaves no text); with less than 10 characters in the end it throws after
\* the await, otherwise the LLM is asked for a file name
autoRenameDocument(i, documentId) ==
    /\ CanStart(i)
    /\ LET oldPath == getPathFromId(documentId)
           doc == CacheGet(cache, oldPath)
           t == [IdleTask EXCEPT !.op = "autoRenameDocument", !.path = oldPath]
       IN  IF doc = 0
           THEN Commit(Mem, task,
                       RenameCall("autoRenameDocument", oldPath, FALSE, "FILE_NOT_FOUND", FALSE),
                       nOps + 1, nEnv)
           ELSE IF heap[doc].ocrText # Undefined /\ Len(heap[doc].ocrText) >= 50
           THEN Commit(Mem, Suspend(i, [t EXCEPT !.pc = "chat"]), last, nOps + 1, nEnv)
           ELSE \E enough \in BOOLEAN :
                Commit(Mem,
                       Suspend(i, [t EXCEPT !.pc =
                                      IF runOcrFallback(fs, oldPath) = "text" /\ enough
                                      THEN "chat" ELSE "short"]),
                       last, nOps + 1, nEnv)

\* autoRenameDocument after `await this.runOcrFallback(...)` with less than
\* 10 characters of text: it throws
autoRenameContent(i) ==
    /\ task[i].op = "autoRenameDocument" /\ task[i].pc = "short"
    /\ Commit(Mem, Finish(i),
              RenameCall("autoRenameDocument", task[i].path, TRUE, "INVALID_DOCUMENT", FALSE),
              nOps, nEnv)

\* String.prototype.replace(/[`'"]/g, "")
StripQuotes(s) == SelectSeq(s, LAMBDA c : c \notin {"`", "'", "\""})

\* newFilename.split(".")[0].replace(/\s/g, "_") + ext
FixFilename(newFilename, ext) ==
    LET i == IndexOf(newFilename, <<".">>)
        stem == IF i = -1 THEN newFilename ELSE Substring(newFilename, 0, i)
    IN  [k \in 1..Len(stem) |-> IF IsSpace(stem[k]) THEN "_" ELSE stem[k]] \o ext

\* the file names the LLM answers with
ChatFilenames == {NameA, <<" ">> \o NameB, <<"c", "d">>}

\* autoRenameDocument after `await this.chat(prompt)`: the chat throws, or its
\* answer is trimmed, repaired when it lacks the extension or holds a space,
\* and given to renameDocument
autoRenameChat(i) ==
    /\ task[i].op = "autoRenameDocument" /\ task[i].pc = "chat"
    /\ \/ Commit(Mem, Finish(i),
                 RenameCall("autoRenameDocument", task[i].path, TRUE, "LLM_ERROR", FALSE),
                 nOps, nEnv)
       \/ \E answer \in ChatFilenames :
            LET oldPath == task[i].path
                newFilename == StripQuotes(Trim(answer))
                ext == Extname(oldPath)
            IN  IF ~EndsWith(newFilename, ext) \/ Includes(newFilename, <<" ">>)
                THEN renameDocumentRun(i, "autoRenameDocument", oldPath,
                                       FixFilename(newFilename, ext), nOps)
                ELSE renameDocumentRun(i, "autoRenameDocument", oldPath, newFilename, nOps)

\* ------------------------------------------------------------------ OCR

\* what runOcr reports when it returns or throws
OcrCall(p, found, outcome) ==
    [NoCall EXCEPT !.op = "runOcr", !.path = p, !.found = found, !.outcome = outcome]

\* runOcr up to `await axios.post(ocrEndpoint)`
runOcr(i, p) ==
    /\ CanStart(i)
    /\ IF ~fs[p].exists
       THEN Commit(Mem, task, OcrCall(p, p \in DOMAIN cache, "FILE_NOT_FOUND"),
                   nOps + 1, nEnv)
       ELSE Commit(Mem, Suspend(i, [IdleTask EXCEPT !.op = "runOcr", !.pc = "ocr",
                                       !.path = p]),
                   last, nOps + 1, nEnv)

\* runOcr after the OCR service has answered: the text is assigned to the
\* tracked record, the index saved and the text returned; when the service
\* failed the local fallback reads the file and the index is left alone
runOcrResponse(i) ==
    /\ task[i].op = "runOcr" /\ task[i].pc = "ocr"
    /\ LET p == task[i].path
           doc == CacheGet(cache, p)
       IN  \/ \E text \in {OcrSample, <<>>} :
                IF doc # 0
                THEN \E w \in WriteOutcomes :
                       Commit(saveDocumentsCache([Mem EXCEPT !.heap[doc].ocrText = text], w),
                              Finish(i), OcrCall(p, TRUE, "ok"), nOps, EnvAfter(w))
                ELSE Commit(Mem, Finish(i), OcrCall(p, FALSE, "ok"), nOps, nEnv)
          \/ Commit(Mem, Finish(i),
                    OcrCall(p, doc # 0,
                            IF runOcrFallback(fs, p) = "text" THEN "ok"
                            ELSE runOcrFallback(fs, p)),
                    nOps, nEnv)

\* ------------------------------------------------------------------ batches
\* The commands dms.reindexAll and dms.runOcr run inside withProgress with
\* cancellable: true.  batch[i].cancelled is token.isCancellationRequested
\* of the command in slot i, batch[i].started the documents whose
\* processing was started, in order.

\* if (!doc.ocrText || doc.ocrText.length < 10)
MinOcrLength == 10

\* an OCR text long enough to be indexed without a new OCR run
OcrLong == <<"a", "b", "c", "d", "e", " ", "f", "g", "h", "i">>

\* the documents the user may pick for dms.runOcr
BatchTargets == {<<PathA>>, <<PathA, PathB>>}

\* what a batch reports when it ends: result holds success and failed
BatchCall(op, b) ==
    [NoCall EXCEPT !.op = op, !.found = TRUE, !.count = b.success,
                   !.result = <<b.success, b.failed>>]

\* where the loop of the batch in task t goes on
LoopHead(t) == IF t.op = "reindexAll" THEN "scanned" ELSE "targets"

\* the item of slot i has ended: good says which counter the loop raises,
\* worked whether the OCR and index requests of the item all succeeded
\* (batch[i].errors counts the items for which one did not)
ItemDone(i, good, worked) ==
    [batch EXCEPT ![i].success = @ + (IF good THEN 1 ELSE 0),
                  ![i].failed = @ + (IF good THEN 0 ELSE 1),
                  ![i].errors = @ + (IF worked THEN 0 ELSE 1)]

\* reindexAll up to the first await inside `await this.getDocuments()`
reindexAll(i) ==
    /\ CanStart(i)
    /\ getDocumentsRun(i, Mem, [IdleTask EXCEPT !.op = "reindexAll"],
                       scanDirectory(fs), <<>>, nOps + 1)

\* one turn of the loop of reindexAll: the end of the list returns the
\* counts; otherwise progressCallback is called and, without 10 characters
\* of OCR text, runOcr is started (it throws when the file is gone), with
\* them indexDocument
reindexAllItem(i) ==
    /\ task[i].op = "reindexAll" /\ task[i].pc = "scanned"
    /\ LET t == task[i]
       IN  IF t.documents = <<>>
           THEN CommitAll(Mem, Finish(i), BatchCall("reindexAll", batch[i]), nOps, nEnv,
                          NoRt, [batch EXCEPT ![i] = NoBatch])
           ELSE LET doc == Head(t.documents)
                    p == heap[doc].path
                    text == heap[doc].ocrText
                    b == [batch EXCEPT ![i].started = Append(@, p)]
                    rest == [t EXCEPT !.documents = Tail(t.documents), !.path = p]
                IN  IF text = Undefined \/ text = <<>> \/ Len(text) < MinOcrLength
                    THEN IF ~fs[p].exists
                         THEN CommitAll(Mem, Suspend(i, rest), last, nOps, nEnv, NoRt,
                                        [b EXCEPT ![i].failed = @ + 1, ![i].errors = @ + 1])
                         ELSE CommitAll(Mem, Suspend(i, [rest EXCEPT !.pc = "batchOcr"]),
                                        last, nOps, nEnv, NoRt, b)
                    ELSE CommitAll(Mem, Suspend(i, [rest EXCEPT !.pc = "batchIndex"]),
                                   last, nOps, nEnv, NoRt, b)

\* the command dms.runOcr with its targets, up to withProgress
runOcrCommand(i, targets) ==
    /\ CanStart(i)
    /\ Commit(Mem, Suspend(i, [IdleTask EXCEPT !.op = "runOcrBatch", !.pc = "targets",
                                               !.files = targets]),
              last, nOps + 1, nEnv)

\* one turn of the loop of dms.runOcr: if (token.isCancellationRequested)
\* break; otherwise progress.report and runOcr(uri)
runOcrCommandItem(i) ==
    /\ task[i].op = "runOcrBatch" /\ task[i].pc = "targets"
    /\ LET t == task[i]
       IN  IF t.files = <<>> \/ batch[i].cancelled
           THEN CommitAll(Mem, Finish(i), BatchCall("runOcrBatch", batch[i]), nOps, nEnv,
                          NoRt, [batch EXCEPT ![i] = NoBatch])
           ELSE LET p == Head(t.files)
                    b == [batch EXCEPT ![i].started = Append(@, p)]
                    rest == [t EXCEPT !.files = Tail(t.files), !.path = p]
                IN  IF ~fs[p].exists
                    THEN CommitAll(Mem, Suspend(i, rest), last, nOps, nEnv, NoRt,
                                   [b EXCEPT ![i].failed = @ + 1, ![i].errors = @ + 1])
                    ELSE CommitAll(Mem, Suspend(i, [rest EXCEPT !.pc = "batchOcr"]),
                                   last, nOps, nEnv, NoRt, b)

\* the runOcr of a batch item after the OCR service has answered: as
\* runOcrResponse (the text is stored and indexDocument called, which sends
\* a non-empty text to the search service and only logs a failure), and the
\* loop of the batch goes on; when the OCR service failed runOcr returns what
\* runOcrFallback returns, or throws what it throws
batchOcrResponse(i) ==
    /\ task[i].pc = "batchOcr"
    /\ LET t == task[i]
           p == t.path
           doc == CacheGet(cache, p)
           on == Suspend(i, [t EXCEPT !.pc = LoopHead(t)])
       IN  \/ \E text \in {OcrLong, <<>>} :
                IF doc # 0
                THEN \E w \in WriteOutcomes, indexed \in BOOLEAN :
                       /\ text = <<>> => indexed
                       /\ CommitAll(saveDocumentsCache([Mem EXCEPT !.heap[doc].ocrText = text],
                                                       w),
                                    on, last, nOps, EnvAfter(w), NoRt,
                                    ItemDone(i, TRUE, indexed))
                ELSE CommitAll(Mem, on, last, nOps, nEnv, NoRt, ItemDone(i, TRUE, TRUE))
          \/ CommitAll(Mem, on, last, nOps, nEnv, NoRt,
                       ItemDone(i, runOcrFallback(fs, p) = "text", FALSE))

\* indexDocument of a reindexAll item has ended: the request to the search
\* service succeeded, or it failed and indexDocument logged the error
batchIndexResponse(i) ==
    /\ task[i].pc = "batchIndex"
    /\ \E indexed \in BOOLEAN :
          CommitAll(Mem, Suspend(i, [task[i] EXCEPT !.pc = LoopHead(task[i])]), last, nOps,
                    nEnv, NoRt, ItemDone(i, TRUE, indexed))

\* the user presses Cancel in the progress notification of the batch in slot i
CancelBatch(i) ==
    /\ task[i].op \in {"reindexAll", "runOcrBatch"}
    /\ ~batch[i].cancelled
    /\ CommitAll(Mem, task, last, nOps, nEnv, NoRt, [batch EXCEPT ![i].cancelled = TRUE])

\* ------------------------------------------------------------------ autoTag

\* String.prototype.split(",")
RECURSIVE SplitComma(_)
SplitComma(s) ==
    LET i == IndexOf(s, <<",">>)
    IN  IF i = -1 THEN <<s>>
        ELSE <<Substring(s, 0, i)>> \o SplitComma(SubstringFrom(s, i + 1))

\* the characters replace(/[^a-z0-9...\-_]/g, "") keeps
TagChars == SeqToSet(Lower) \cup {"0", "1", "2", "3", "4", "5", "6", "7", "8", "9", "-", "_"}

\* response.split(",").map((t) => t.trim().toLowerCase().replace(..., ""))
ParseTags(response) ==
    LET parts == SplitComma(response)
    IN  [k \in 1..Len(parts) |->
            SelectSeq(ToLowerCase(Trim(parts[k])), LAMBDA c : c \in TagChars)]

\* for (const tag of newTags) if (tag && !doc.tags.includes(tag)) doc.tags.push(tag)
RECURSIVE autoTagLoop(_, _, _)
autoTagLoop(m, doc, newTags) ==
    IF newTags = <<>> THEN m
    ELSE autoTagLoop(IF Head(newTags) # <<>> /\ ~SeqIncludes(TagsOf(m, doc), Head(newTags))
                     THEN TagsPush(m, doc, Head(newTags)) ELSE m,
                     doc, Tail(newTags))

\* what autoTagDocument reports when it returns or throws
AutoTagCall(p, found, outcome) ==
    [NoCall EXCEPT !.op = "autoTagDocument", !.path = p, !.found = found,
                   !.outcome = outcome]

\* autoTagDocument up to its first await: the lookup; without OCR text the
\* file is read by runOcrFallback and awaited; with it getTags() starts its
\* getDocuments at once
autoTagDocument(i, docId) ==
    /\ CanStart(i)
    /\ LET p == getPathFromId(docId)
           doc == CacheGet(cache, p)
           t == [IdleTask EXCEPT !.op = "autoTagDocument", !.path = p, !.held = doc]
       IN  IF doc = 0
           THEN Commit(Mem, task, AutoTagCall(p, FALSE, "FILE_NOT_FOUND"), nOps + 1, nEnv)
           ELSE IF heap[doc].ocrText \notin {Undefined, <<>>}
           THEN getDocumentsRun(i, Mem, t, scanDirectory(fs), <<>>, nOps + 1)
           ELSE IF runOcrFallback(fs, p) # "text"
           THEN Commit(Mem, task, AutoTagCall(p, TRUE, runOcrFallback(fs, p)),
                       nOps + 1, nEnv)
           ELSE Commit(Mem, Suspend(i, [t EXCEPT !.pc = "text"]), last, nOps + 1, nEnv)

\* autoTagDocument after `await this.runOcrFallback(...)`: getTags() starts
\* its getDocuments
autoTagGetTags(i) ==
    /\ task[i].op = "autoTagDocument" /\ task[i].pc = "text"
    /\ getDocumentsRun(i, Mem, task[i], scanDirectory(fs), <<>>, nOps)

\* the answers of the LLM to the tagging prompt
ChatTagReplies == {TagLo, TagUp \o <<",", " ">> \o TagLo, <<>>}

\* autoTagDocument after getTags() and `await this.chat(prompt)`: the chat
\* throws, or its answer is parsed and the new tags are pushed onto the tags
\* of the document object looked up at the start; the index is saved
autoTagChat(i) ==
    /\ task[i].op = "autoTagDocument" /\ task[i].pc = "scanned"
    /\ LET doc == task[i].held
       IN  \/ Commit(Mem, Finish(i), AutoTagCall(task[i].path, TRUE, "LLM_ERROR"),
                     nOps, nEnv)
           \/ \E response \in ChatTagReplies, w \in WriteOutcomes :
                LET m1 == autoTagLoop(Mem, doc, ParseTags(response))
                IN  /\ Len(TagsOf(m1, doc)) <= MaxTags
                    /\ Commit(saveDocumentsCache(m1, w), Finish(i),
                              AutoTagCall(task[i].path, TRUE, "ok"), nOps, EnvAfter(w))

\* ------------------------------------------------------------------ search

\* a score as a fraction: the code's floats 1.0, 0.5, 1 / (1 + distance)
\* and score / queryTerms.length, kept exact
Rat(n, d) == [num |-> n, den |-> d]
RatLess(a, b) == a.num * b.den < b.num * a.den
RatEq(a, b) == a.num * b.den = b.num * a.den

Min(a, b) == IF a < b THEN a ELSE b
Max(a, b) == IF a > b THEN a ELSE b

\* limit: 10 in the request and slice(0, 10) in enhancedSearch
SearchLimit == 10

TagPrefix == <<"t", "a", "g", ":">>
TagMatch == <<"T", "a", "g", " ", "M", "a", "t", "c", "h", ":", " ">>
Ellipsis == <<".", ".", ".">>

RECURSIVE DropSpaces(_)
DropSpaces(s) ==
    IF s # <<>> /\ IsSpace(Head(s)) THEN DropSpaces(Tail(s)) ELSE s

\* String.prototype.split(/\s+/): cur is the piece being read
RECURSIVE SplitSpaces(_, _)
SplitSpaces(s, cur) ==
    IF s = <<>> THEN <<cur>>
    ELSE IF IsSpace(Head(s))
    THEN <<cur>> \o SplitSpaces(DropSpaces(Tail(s)), <<>>)
    ELSE SplitSpaces(Tail(s), Append(cur, Head(s)))

\* query.toLowerCase().split(/\s+/).filter((t) => t.length > 1)
QueryTerms(query) ==
    SelectSeq(SplitSpaces(ToLowerCase(query), <<>>), LAMBDA t : Len(t) > 1)

\* the scoring of one term without the toLowerCase calls on the document
TermScoreCaseSensitive(doc, term) ==
    (IF doc.name = term THEN 10
     ELSE IF Includes(doc.name, term) THEN 6 ELSE 0)
    + (IF SeqIncludes(doc.tags, term) THEN 8
       ELSE IF \E k \in 1..Len(doc.tags) : Includes(doc.tags[k], term) THEN 4
       ELSE 0)
    + (IF doc.ocrText # Undefined /\ Includes(doc.ocrText, term) THEN 3 ELSE 0)

\* what one term adds to the score of one document, in tenths
TermScore(doc, term) ==
    LET nameLower == ToLowerCase(doc.name)
        tagsLower == [k \in 1..Len(doc.tags) |-> ToLowerCase(doc.tags[k])]
    IN  (IF nameLower = term THEN 10
         ELSE IF Includes(nameLower, term) THEN 6 ELSE 0)
        + (IF SeqIncludes(tagsLower, term) THEN 8
           ELSE IF \E k \in 1..Len(tagsLower) : Includes(tagsLower[k], term) THEN 4
           ELSE 0)
        + (IF doc.ocrText # Undefined /\ Includes(ToLowerCase(doc.ocrText), term)
           THEN 3 ELSE 0)

\* the inner loop of enhancedSearch: the score of one document, in tenths
RECURSIVE DocScore(_, _)
DocScore(doc, terms) ==
    IF terms = <<>> THEN 0
    ELSE TermScore(doc, Head(terms)) + DocScore(doc, Tail(terms))

\* score / queryTerms.length without the Math.min
NormalizedScoreNoMin(score, n) ==
    Rat(score, 10 * n)

\* Math.min(score / queryTerms.length, 1.0)
NormalizedScore(score, n) ==
    IF score >= 10 * n THEN Rat(1, 1) ELSE Rat(score, 10 * n)

\* the snippet of enhancedSearch: the name, or a window of the OCR text
\* around the first occurrence of the first term
Snippet(doc, terms) ==
    IF doc.ocrText \in {Undefined, <<>>} THEN doc.name
    ELSE LET index == IndexOf(ToLowerCase(doc.ocrText), terms[1])
             start == Max(0, index - 50)
             end == Min(Len(doc.ocrText), index + 150)
         IN  IF index = -1 THEN doc.name
             ELSE (IF start > 0 THEN Ellipsis ELSE <<>>)
                  \o Substring(doc.ocrText, start, end)
                  \o (IF end < Len(doc.ocrText) THEN Ellipsis ELSE <<>>)

\* the outer loop of enhancedSearch: one result per document that scores
RECURSIVE ScoreLoop(_, _)
ScoreLoop(docs, terms) ==
    IF docs = <<>> THEN <<>>
    ELSE LET doc == Head(docs)
             score == DocScore(doc, terms)
         IN  (IF score > 0
              THEN << [document |-> doc,
                       score |-> NormalizedScore(score, Len(terms)),
                       snippet |-> Snippet(doc, terms)] >>
              ELSE <<>>)
             \o ScoreLoop(Tail(docs), terms)

\* Array.prototype.sort((a, b) => b.score - a.score), which is stable: x goes
\* behind every result that scores at least as much
InsertByScore(sorted, x) ==
    LET k == Cardinality({j \in 1..Len(sorted) : ~RatLess(sorted[j].score, x.score)})
    IN  SubSeq(sorted, 1, k) \o <<x>> \o SubSeq(sorted, k + 1, Len(sorted))

RECURSIVE SortByScore(_)
SortByScore(results) ==
    IF results = <<>> THEN <<>>
    ELSE InsertByScore(SortByScore(SubSeq(results, 1, Len(results) - 1)),
                       results[Len(results)])

\* Array.prototype.slice(0, n)
Slice(seq, n) == SubSeq(seq, 1, Min(n, Len(seq)))

\* enhancedSearch after `await this.getDocuments()`: score, sort, cut
enhancedSearchResults(docs, query) ==
    Slice(SortByScore(ScoreLoop(docs, QueryTerms(query))), SearchLimit)

\* getDocumentsByTag after `await this.getDocuments()`
getDocumentsByTag(docs, tag) == SelectSeq(docs, LAMBDA d : SeqIncludes(d.tags, tag))

\* the tag branch of semanticSearch: docs.map(...)
TagResults(docs, tag) ==
    [k \in 1..Len(docs) |->
        [document |-> docs[k], score |-> Rat(1, 1), snippet |-> TagMatch \o tag]]

\* what the search backend may answer: items {id, text, metadata, distance},
\* the nearest first; a distance may be 0 (an exact match) or missing
NoDistance == [null |-> TRUE, num |-> 0, den |-> 1]
Distance(n, d) == [null |-> FALSE, num |-> n, den |-> d]
NoMetadata == [title |-> Undefined, path |-> Undefined, type |-> Undefined]
BackendItem(p, text, d) ==
    [id |-> Base64(p), text |-> text,
     metadata |-> [title |-> Undefined, path |-> p,
                   type |-> RemoveFirstDot(ToLowerCase(Extname(p)))],
     distance |-> d]
BareItem == [id |-> BadId, text |-> Undefined, metadata |-> NoMetadata,
             distance |-> NoDistance]
\* r.text?.substring(0, 200)
SnippetLimit == 200
\* a text one character longer than a snippet
LongText == [k \in 1..(SnippetLimit + 1) |-> IF k <= SnippetLimit THEN "c" ELSE "d"]
BackendItems ==
    { BackendItem(PathA, OcrSample, Distance(0, 1)),
      BackendItem(PathA, OcrSample, Distance(1, 1)),
      BackendItem(PathB, LongText, Distance(1, 2)),
      BareItem }
Nearer(a, b) ==
    \/ b.distance.null
    \/ ~a.distance.null /\ ~RatLess(b.distance, a.distance)
RemoteResponses ==
    UNION { {r \in [1..n -> BackendItems] :
                /\ \A j, k \in 1..n : j < k => r[j].id # r[k].id
                /\ \A j \in 1..(n - 1) : Nearer(r[j], r[j + 1])}
            : n \in 0..MaxRemote }

\* new Date(): the clock at the call, not before any time of a file
Now == MaxTime

\* the mapping of one backend item to a SearchResult
\* (`r.distance ? 1 / (1 + r.distance) : 0.5`: a distance of 0 is falsy)
MapBackendResult(r, now) ==
    [document |->
        [id |-> r.id,
         name |-> IF r.metadata.title # Undefined THEN r.metadata.title ELSE r.id,
         path |-> IF r.metadata.path # Undefined THEN r.metadata.path ELSE <<>>,
         type |-> IF r.metadata.type # Undefined THEN r.metadata.type
                  ELSE <<"u", "n", "k", "n", "o", "w", "n">>,
         tags |-> <<>>, createdAt |-> Date(now), modifiedAt |-> Date(now),
         ocrText |-> r.text],
     score |-> IF r.distance.null \/ r.distance.num = 0 THEN Rat(1, 2)
               ELSE Rat(r.distance.den, r.distance.den + r.distance.num),
     snippet |-> IF r.text = Undefined THEN <<>>
                 ELSE Substring(r.text, 0, Min(SnippetLimit, Len(r.text)))]

MapBackendResults(response, now) ==
    [k \in 1..Len(response) |-> MapBackendResult(response[k], now)]

\* the queries asked
Queries ==
    { <<" ">>,
      TagPrefix \o TagLo,
      <<"T", "A", "G", ":", " ">> \o TagUp \o <<" ">>,
      <<"A", "B">>,
      NameB \o <<" ">> \o TagLo }

\* what semanticSearch reports when it returns
SearchCall(query, tag, remote, result, scanned) ==
    [NoCall EXCEPT !.op = "semanticSearch", !.query = query, !.tag = tag,
                   !.found = TRUE, !.remote = remote, !.result = result,
                   !.scanned = scanned]

\* semanticSearch up to its first await: an empty query returns at once; a
\* tag query calls getDocumentsByTag, which starts getDocuments; any other
\* query is posted to the backend
semanticSearch(i, query) ==
    /\ CanStart(i)
    /\ LET t == [IdleTask EXCEPT !.op = "semanticSearch", !.query = query]
       IN  IF Len(Trim(query)) = 0
           THEN Commit(Mem, task, SearchCall(query, <<>>, "none", <<>>, <<>>),
                       nOps + 1, nEnv)
           ELSE IF StartsWith(ToLowerCase(query), TagPrefix)
           THEN getDocumentsRun(i, Mem, [t EXCEPT !.tag = Trim(SubstringFrom(query, 4))],
                                scanDirectory(fs), <<>>, nOps + 1)
           ELSE Commit(Mem, Suspend(i, [t EXCEPT !.pc = "remote"]), last, nOps + 1, nEnv)

\* semanticSearch after getDocumentsByTag has its documents: filter and map
semanticSearchByTag(i) ==
    /\ task[i].op = "semanticSearch" /\ task[i].pc = "scanned"
    /\ task[i].remote = "none"
    /\ LET docs == DocViews(Mem, task[i].documents)
           tag == task[i].tag
       IN  Commit(Mem, Finish(i),
                  SearchCall(task[i].query, tag, "none",
                             TagResults(getDocumentsByTag(docs, tag), tag), docs),
                  nOps, nEnv)

\* semanticSearch after `await axios.post(.../search)`: the answer is mapped
\* and returned, or the call has failed (timeout, refused, status) and the
\* catch block calls enhancedSearch, which starts getDocuments
semanticSearchResponse(i) ==
    /\ task[i].op = "semanticSearch" /\ task[i].pc = "remote"
    /\ \/ \E response \in RemoteResponses :
            Commit(Mem, Finish(i),
                   [SearchCall(task[i].query, <<>>, "ok",
                               MapBackendResults(response, Now), <<>>)
                      EXCEPT !.response = response],
                   nOps, nEnv)
       \/ getDocumentsRun(i, Mem, [task[i] EXCEPT !.remote = "failed"],
                          scanDirectory(fs), <<>>, nOps)

\* enhancedSearch after `await this.getDocuments()`
enhancedSearch(i) ==
    /\ task[i].op = "semanticSearch" /\ task[i].pc = "scanned"
    /\ task[i].remote = "failed"
    /\ LET docs == DocViews(Mem, task[i].documents)
       IN  Commit(Mem, Finish(i),
                  SearchCall(task[i].query, <<>>, "failed",
                             enhancedSearchResults(docs, task[i].query), docs),
                  nOps, nEnv)

\* ------------------------------------------------------------------ scorer

\* the lexical scorer on its own: the loop, the sort and the cut of
\* enhancedSearch applied to a list of documents as getDocuments returns one

NameUp == <<"A", "B", ".", "t", "x", "t">>
OcrLower == <<"x", " ", "a", "b", " ", "y">>

\* the documents scored: [name, tags, ocrText]
ScorerKinds ==
    { <<NameA, <<>>, Undefined>>,
      <<NameUp, <<>>, Undefined>>,
      <<NameB, <<>>, Undefined>>,
      <<NameB, <<TagLo>>, Undefined>>,
      <<NameB, <<TagUp>>, Undefined>>,
      <<NameB, <<>>, OcrSample>>,
      <<NameB, <<>>, OcrLower>>,
      <<NameB, <<NameB, TagLo>>, Undefined>> }

\* the k-th document of a list: each in a folder of its own under the root
ScorerDoc(k, kind) ==
    LET filePath == PathJoin(PathJoin(DocsPath, <<Lower[k]>>), kind[1])
    IN  [id |-> Base64(filePath), name |-> kind[1], path |-> filePath,
         type |-> RemoveFirstDot(ToLowerCase(Extname(filePath))),
         tags |-> kind[2], createdAt |-> Date(0), modifiedAt |-> Date(0),
         ocrText |-> kind[3]]

\* short lists of every kind, and long lists in which the first documents are
\* named ab.txt and the others cd.txt
ScorerInputs ==
    UNION { {[k \in 1..n |-> ScorerDoc(k, kinds[k])] : kinds \in [1..n -> ScorerKinds]}
            : n \in 0..MaxMixed }
    \cup
    UNION { {[k \in 1..n |-> ScorerDoc(k, <<IF k <= j THEN NameA ELSE NameB, <<>>, Undefined>>)]
               : j \in 0..n}
            : n \in (MaxMixed + 1)..MaxDocs }

ScorerQueries ==
    { <<"a", "b">>,
      <<"A", "B">>,
      <<"a", " ", "b">>,
      NameB,
      <<"C", "D", ".", "t", "x", "t">>,
      NameB \o <<" ">> \o TagLo,
      <<" ">> \o TagLo \o <<" ", " ", "x">> }

\* enhancedSearch from the line after `await this.getDocuments()` to its
\* return, once in a run
LexicalScorer(docs, query) ==
    /\ last.op = "none"
    /\ Commit(Mem, task,
           [SearchCall(query, <<>>, "failed", enhancedSearchResults(docs, query), docs)
                 EXCEPT !.op = "enhancedSearch"],
              nOps, nEnv)

\* ------------------------------------------------------------------ environment

\* a file appears under the root
EnvCreateFile(p) ==
    /\ nEnv < MaxEnv
    /\ ~fs[p].exists
    /\ \E t \in Times :
        Commit([Mem EXCEPT !.fs[p] = FileStat(t, t)], task, last, nOps, nEnv + 1)

\* a file under the root is deleted
EnvDeleteFile(p) ==
    /\ nEnv < MaxEnv
    /\ fs[p].exists
    /\ Commit([Mem EXCEPT !.fs[p] = NoFile], task, last, nOps, nEnv + 1)

\* a file under the root is written
EnvModifyFile(p) ==
    /\ nEnv < MaxEnv
    /\ fs[p].exists
    /\ \E t \in Times :
        /\ t > fs[p].mtime
        /\ Commit([Mem EXCEPT !.fs[p].mtime = t], task, last, nOps, nEnv + 1)

\* ------------------------------------------------------------------ recent

\* a sort that leaves the list as it is
SortByModifiedNone(docs) ==
    docs

\* docs.sort((a, b) => b.modifiedAt.getTime() - a.modifiedAt.getTime()):
\* a stable sort, latest first
RECURSIVE SortByModified(_)
SortByModified(docs) ==
    IF docs = <<>> THEN <<>>
    ELSE LET d == docs[Len(docs)]
             sorted == SortByModified(SubSeq(docs, 1, Len(docs) - 1))
             before == SelectSeq(sorted, LAMBDA x : x.modifiedAt.time >= d.modifiedAt.time)
             after == SelectSeq(sorted, LAMBDA x : x.modifiedAt.time < d.modifiedAt.time)
         IN  before \o <<d>> \o after

\* what getRecentDocuments reports when it returns: the list, and the limit
RecentCall(docs, limit) ==
    [NoCall EXCEPT !.op = "getRecentDocuments", !.found = TRUE, !.count = limit,
                   !.scanned = docs]

\* getRecentDocuments up to the first await inside `await this.getDocuments()`
getRecentDocuments(i, limit) ==
    /\ CanStart(i)
    /\ getDocumentsRun(i, Mem, [IdleTask EXCEPT !.op = "getRecentDocuments",
                                                !.limit = limit],
                       scanDirectory(fs), <<>>, nOps + 1)

\* getRecentDocuments after getDocuments has returned: sort and slice
getRecentDocumentsReturn(i) ==
    /\ task[i].op = "getRecentDocuments" /\ task[i].pc = "scanned"
    /\ Commit(Mem, Finish(i),
              RecentCall(Slice(SortByModified(DocViews(Mem, task[i].documents)),
                               task[i].limit),
                         task[i].limit),
              nOps, nEnv)

\* ------------------------------------------------------------------ chat
\* DmsAssistant.handleGeneral, cut at its awaits: queryKnowledgeGraph,
\* semanticSearch and chat are calls to the service whose answers arrive in
\* a later step.  chat.calls lists the calls issued and the answers received
\* in their order, chat.context the fragments appended to the context string,
\* chat.references the paths passed to stream.reference.

\* results one answer of semanticSearch may hold
MaxHits == 4
\* substring(0, 2000) of the active document
ExcerptLimit == 2000
\* similarDocs.slice(0, 3)
ContextDocs == 3

PromptWer == <<"W", "e", "r", " ", "i", "s", "t", " ", "d", "a", "s", "?">>
PromptFasse == <<"F", "a", "s", "s", "e", " ", "d", "a", "s", " ", "z", "u", "s", "a", "m", "m", "e", "n">>
PromptFirma == <<"W", "e", "l", "c", "h", "e", " ", "F", "i", "r", "m", "a", "?">>
PromptSchwer == <<"S", "c", "h", "w", "e", "r">>
PromptPreis == <<"W", "e", "l", "c", "h", "e", "r", " ", "P", "r", "e", "i", "s", "?">>
PromptBeziehung == <<"B", "E", "Z", "I", "E", "H", "U", "N", "G">>
Prompts == {PromptWer, PromptFasse, PromptFirma, PromptSchwer, PromptPreis, PromptBeziehung}

\* structuredKeywords
structuredKeywords ==
    << <<"w", "e", "r">>,
       <<"w", "e", "l", "c", "h", "e">>,
       <<"o", "r", "g", "a", "n", "i", "s", "a", "t", "i", "o", "n">>,
       <<"p", "e", "r", "s", "o", "n">>,
       <<"v", "e", "r", "b", "i", "n", "d", "u", "n", "g">>,
       <<"b", "e", "z", "i", "e", "h", "u", "n", "g">>,
       <<"z", "u", "s", "a", "m", "m", "e", "n", "h", "a", "n", "g">> >>

\* a keyword test that does not lowercase the prompt
useGraphCaseSensitive(prompt) ==
    \E k \in 1..Len(structuredKeywords) : Includes(prompt, structuredKeywords[k])

\* structuredKeywords.some((kw) => prompt.toLowerCase().includes(kw))
useGraph(prompt) ==
    \E k \in 1..Len(structuredKeywords) : Includes(ToLowerCase(prompt), structuredKeywords[k])

\* queryGraphForContext: the entity query chosen by the second keyword test
entityQuery(prompt) ==
    LET has(kw) == Includes(ToLowerCase(prompt), kw)
    IN  CASE has(<<"o", "r", "g", "a", "n", "i", "s", "a", "t", "i", "o", "n">>) \/ has(<<"f", "i", "r", "m", "a">>) -> "organization"
          [] has(<<"p", "e", "r", "s", "o", "n">>) \/ has(<<"w", "e", "r">>) -> "person"
          [] has(<<"d", "a", "t", "u", "m">>) \/ has(<<"w", "a", "n", "n">>) -> "date"
          [] has(<<"b", "e", "t", "r", "a", "g">>) \/ has(<<"p", "r", "e", "i", "s">>) -> "amount"
          [] OTHER -> "recent"

\* the active text editor: none, one without a selection, one with a selection
NoEditor == [present |-> FALSE, fileName |-> <<>>, text |-> <<>>, selected |-> <<>>]
Editors ==
    { NoEditor,
      [present |-> TRUE, fileName |-> PathA, text |-> <<"x", "y", "z">>, selected |-> <<>>],
      [present |-> TRUE, fileName |-> PathB, text |-> <<"x", "y", "z">>, selected |-> <<"y">>] }

\* selection.isEmpty ? getText().substring(0, 2000) : getText(selection),
\* under the heading with the file's basename
ActiveFragment(editor) ==
    [kind |-> "active", name |-> Basename(editor.fileName),
     text |-> IF editor.selected = <<>>
              THEN Substring(editor.text, 0, Min(ExcerptLimit, Len(editor.text)))
              ELSE editor.selected]

\* the answers of the graph service: the request fails, the body has no
\* result, or result is a list of statement results, each with its rows
Entity(k) == [type |-> "person", value |-> <<Lower[k]>>]
GraphFailed == [ok |-> FALSE, hasResult |-> FALSE, result |-> <<>>]
GraphReplies ==
    { GraphFailed,
      [ok |-> TRUE, hasResult |-> FALSE, result |-> <<>>],
      [ok |-> TRUE, hasResult |-> TRUE, result |-> <<>>],
      [ok |-> TRUE, hasResult |-> TRUE, result |-> << <<>> >>],
      [ok |-> TRUE, hasResult |-> TRUE, result |-> << <<Entity(1)>> >>],
      [ok |-> TRUE, hasResult |-> TRUE, result |-> << <<Entity(1), Entity(2)>> >>] }

\* queryGraphForContext after queryKnowledgeGraph has answered: a thrown
\* error is caught and null returned; with result.result.length > 0 the text
\* "Gefundene Entitäten:" and one line per row of result.result[0].result
queryGraphForContext(reply) ==
    IF reply.ok /\ reply.hasResult /\ Len(reply.result) > 0
    THEN [null |-> FALSE, lines |-> reply.result[1]]
    ELSE [null |-> TRUE, lines |-> <<>>]

\* the answers of semanticSearch: it throws, or returns its results, best first
Hit(k) == [name |-> <<Lower[k]>>, path |-> PathJoin(DocsPath, <<Lower[k]>>),
           snippet |-> <<"s", Lower[k]>>]
SearchFailed == [ok |-> FALSE, results |-> <<>>]
SearchReplies ==
    {SearchFailed} \cup {[ok |-> TRUE, results |-> [k \in 1..n |-> Hit(k)]] : n \in 0..MaxHits}

\* no chat turn yet
NoChat == [pc |-> "idle", prompt |-> <<>>, active |-> FALSE, useGraphRAG |-> FALSE,
           context |-> <<>>,
           references |-> <<>>, calls |-> <<>>, graph |-> GraphFailed,
           search |-> SearchFailed, result |-> "none", raised |-> FALSE]

\* an entry of chat.calls
ChatEvent(what, query, prompt) == [what |-> what, query |-> query, prompt |-> prompt]

\* `await this.dmsService.semanticSearch(prompt)` is reached
callSemanticSearch(c) ==
    [c EXCEPT !.pc = "search",
              !.calls = Append(@, ChatEvent("semanticSearch", "", c.prompt))]

\* a turn that ends when the graph query fails
graphStepAbort(c, reply) ==
    IF reply.ok THEN callSemanticSearch([c EXCEPT !.graph = reply])
    ELSE [c EXCEPT !.pc = "done", !.graph = reply, !.result = "error"]

\* handleGeneral from the answer of the graph service to the search call:
\* if (graphResult) context += "Knowledge Graph Informationen" + graphResult
graphStep(c, reply) ==
    LET graphResult == queryGraphForContext(reply)
        c1 == [c EXCEPT !.graph = reply,
                        !.calls = Append(@, ChatEvent("queryKnowledgeGraph answered", "",
                                                      c.prompt)),
                        !.context = IF graphResult.null THEN @
                                    ELSE Append(@, [kind |-> "graph", name |-> <<>>,
                                                    text |-> graphResult.lines])]
    IN  callSemanticSearch(c1)

\* for (const result of topDocs): context += name and snippet
DocFragments(topDocs) ==
    [k \in 1..Len(topDocs) |->
        [kind |-> "doc", name |-> topDocs[k].name, text |-> topDocs[k].snippet]]

\* handleGeneral from the answer of semanticSearch to the call of chat: a
\* thrown error is caught; of a non-empty answer the first three results go
\* into the context and their paths to stream.reference
searchStep(c, reply) ==
    LET topDocs == IF reply.ok THEN Slice(reply.results, ContextDocs) ELSE <<>>
    IN  [c EXCEPT !.pc = "chat", !.search = reply,
                  !.context = @ \o DocFragments(topDocs),
                  !.references = @ \o [k \in 1..Len(topDocs) |-> topDocs[k].path],
                  !.calls = Append(@, ChatEvent("chat", "", c.prompt))]

\* the variables of the document service
svc == <<fs, cache, heap, arrs, disk, file, gstate, up, writeFailed, task, last, rt,
         batch, faults, nOps, nEnv>>

\* handleGeneral up to its first await: the context starts with the active
\* document, the keyword test decides whether the graph is asked first
handleGeneral(prompt, editor) ==
    /\ chat.pc \in {"idle", "done"}
    /\ LET c == [NoChat EXCEPT !.prompt = prompt, !.active = editor.present,
                               !.context = IF editor.present
                                           THEN <<ActiveFragment(editor)>> ELSE <<>>]
       IN  chat' = IF useGraph(prompt)
                   THEN [c EXCEPT !.pc = "graph", !.useGraphRAG = TRUE,
                                  !.calls = <<ChatEvent("queryKnowledgeGraph",
                                                        entityQuery(prompt), prompt)>>]
                   ELSE callSemanticSearch(c)
    /\ UNCHANGED svc

\* the graph service has answered
handleGeneralGraph(reply) ==
    /\ chat.pc = "graph"
    /\ chat' = graphStep(chat, reply)
    /\ UNCHANGED svc

\* semanticSearch has returned or thrown
handleGeneralSearch(reply) ==
    /\ chat.pc = "search"
    /\ chat' = searchStep(chat, reply)
    /\ UNCHANGED svc

\* a handleRequest without the try / catch around the handlers
handleRequestNoCatch(threw) ==
    [raised |-> threw, metadata |-> IF threw THEN "none" ELSE "success"]

\* handleRequest around handleGeneral: what handleGeneral returns is
\* returned ({ metadata: { success: true } }); what it throws is caught,
\* written to the stream and returned as { metadata: { error: String(error) } }
handleRequest(threw) ==
    [raised |-> FALSE, metadata |-> IF threw THEN "error" ELSE "success"]

\* chat has returned the response, or thrown (DmsError LLM_ERROR or
\* SERVICE_UNAVAILABLE); handleRequest returns
handleGeneralChat(ok) ==
    /\ chat.pc = "chat"
    /\ LET r == handleRequest(~ok)
       IN  chat' = [chat EXCEPT !.pc = "done", !.result = r.metadata, !.raised = r.raised]
    /\ UNCHANGED svc

\* ------------------------------------------------------------------ start

\* new Date(s) of an ISO string
ParseDate(s) == Date(s.iso)

\* the index files the service may find at start: records the service itself
\* wrote, each under its own path, tag lists without duplicates
InitRecord(p, tags, ocr) ==
    [id |-> Base64(p), name |-> Basename(p), path |-> p,
     type |-> RemoveFirstDot(ToLowerCase(Extname(p))), tags |-> tags,
     createdAt |-> ToISOString(Date(0)), modifiedAt |-> ToISOString(Date(0)),
     ocrText |-> ocr]
InitIndexes ==
    { <<>>,
      (PathA :> InitRecord(PathA, <<>>, Undefined)),
      (PathA :> InitRecord(PathA, <<TagLo, TagUp>>, OcrSample))
         @@ (PathB :> InitRecord(PathB, <<TagLo>>, Undefined)) }

\* the files under the root at start: all of them, or only one
InitFiles ==
    { [p \in Paths |-> FileStat(0, 0)],
      [p \in Paths |-> IF p = PathA THEN FileStat(0, 0) ELSE NoFile] }

\* loadDocumentsCache: JSON.parse of dms-index.json, the date strings made
\* Dates again, one object per entry
loadDocumentsCache(data) ==
    LET keys == SelectSeq(PathOrder, LAMBDA p : p \in DOMAIN data)
        n == Len(keys)
    IN  [cache |-> [p \in DOMAIN data |-> CHOOSE k \in 1..n : keys[k] = p],
         heap |-> [k \in 1..n |->
                     [data[keys[k]] EXCEPT !.tags = k,
                                           !.createdAt = ParseDate(@),
                                           !.modifiedAt = ParseDate(@)]],
         arrs |-> [k \in 1..n |-> data[keys[k]].tags]]

Start(f) ==
    /\ fs \in InitFiles
    /\ disk \in InitIndexes
    /\ LET m == loadDocumentsCache(disk)
       IN  cache = m.cache /\ heap = m.heap /\ arrs = m.arrs
    /\ file = "whole"
    /\ gstate = disk
    /\ up = TRUE
    /\ writeFailed = FALSE
    /\ task = [i \in Slots |-> IdleTask]
    /\ last = NoCall
    /\ rt = NoRt
    /\ faults = f
    /\ chat = NoChat
    /\ batch = [i \in Slots |-> NoBatch]
    /\ nOps = 0
    /\ nEnv = 0

\* the extension is activated; the index file can be written
Init ==
    Start(FALSE)

\* the extension is activated; a write of the index file may fail, and the
\* extension host may stop
InitPersist ==
    Start(TRUE)

\* loadDocumentsCache when dms-index.json is missing or cannot be parsed:
\* new Map(Object.entries(cacheData)) of the globalState copy, the date
\* strings left as they are
loadFromGlobalState(data) ==
    LET keys == SelectSeq(PathOrder, LAMBDA p : p \in DOMAIN data)
        n == Len(keys)
    IN  [cache |-> [p \in DOMAIN data |-> CHOOSE k \in 1..n : keys[k] = p],
         heap |-> [k \in 1..n |-> [data[keys[k]] EXCEPT !.tags = k]],
         arrs |-> [k \in 1..n |-> data[keys[k]].tags]]

\* what the activation reports: found says that the index file was read
LoadCall(fromFile) ==
    [NoCall EXCEPT !.op = "load", !.found = fromFile]

\* the extension host stops between two steps: every call in flight is gone
Stop ==
    /\ up
    /\ nEnv < MaxEnv
    /\ Commit([Mem EXCEPT !.up = FALSE], task, last, nOps, nEnv + 1)

\* the extension is activated again: the constructor calls
\* loadDocumentsCache, which reads the index file, or, when that cannot be
\* parsed, the globalState copy, and then starts saveDocumentsCache
Restart ==
    /\ ~up
    /\ LET fromFile == file = "whole"
           l == IF fromFile THEN loadDocumentsCache(disk) ELSE loadFromGlobalState(gstate)
           m0 == [Mem EXCEPT !.cache = l.cache, !.heap = l.heap, !.arrs = l.arrs,
                             !.up = TRUE, !.writeFailed = FALSE]
       IN  IF fromFile
           THEN Commit(m0, task, LoadCall(TRUE), nOps, nEnv)
           ELSE \E w \in WriteOutcomes :
                    Commit(saveDocumentsCache(m0, w), task, LoadCall(FALSE), nOps,
                           EnvAfter(w))

\* The index life cycle: watcher, scan, rename, OCR text, with one tag
\* operation so that records carry tags a later step may lose.
Next ==
    \/ \E i \in Slots, p \in Paths : onDidCreate(i, p)
    \/ \E i \in Slots : onDidCreateInsert(i)
    \/ \E i \in Slots, p \in Paths : onDidDelete(i, p)
    \/ \E i \in Slots, p \in Paths : onDidChange(i, p)
    \/ \E i \in Slots, id \in Ids, tag \in Tags : addTagToDocument(i, id, tag)
    \/ \E i \in Slots : getDocuments(i)
    \/ \E i \in Slots : getDocumentsInsert(i)
    \/ \E i \in Slots, p \in Paths, n \in {NameA, NameB} : renameDocument(i, p, n)
    \/ \E i \in Slots, id \in Ids : autoRenameDocument(i, id)
    \/ \E i \in Slots : autoRenameContent(i)
    \/ \E i \in Slots : autoRenameChat(i)
    \/ \E i \in Slots, p \in Paths : runOcr(i, p)
    \/ \E i \in Slots : runOcrResponse(i)
    \/ \E p \in Paths : EnvCreateFile(p)
    \/ \E p \in Paths : EnvDeleteFile(p)
    \/ \E p \in Paths : EnvModifyFile(p)

Spec == Init /\ [][Next]_vars

\* The tag operations, with the watcher's delete so that a tracked document
\* can become untracked between two of them.
NextTags ==
    \/ \E i \in Slots, id \in Ids, tag \in Tags : addTagToDocument(i, id, tag)
    \/ \E i \in Slots, id \in Ids, tag \in Tags : removeTagFromDocument(i, id, tag)
    \/ \E i \in Slots, t1 \in Tags, t2 \in Tags : renameTag(i, t1, t2)
    \/ \E i \in Slots, tag \in Tags : deleteTag(i, tag)
    \/ \E i \in Slots, id \in Ids : autoTagDocument(i, id)
    \/ \E i \in Slots : autoTagGetTags(i)
    \/ \E i \in Slots : getDocumentsInsert(i)
    \/ \E i \in Slots : autoTagChat(i)
    \/ \E i \in Slots, p \in Paths : onDidDelete(i, p)
    \/ \E p \in Paths : EnvDeleteFile(p)

SpecTags == Init /\ [][NextTags]_vars

\* The searches, with what makes the documents root and the index differ:
\* files come and go, a tag is added.
NextSearch ==
    \/ \E i \in Slots, q \in Queries : semanticSearch(i, q)
    \/ \E i \in Slots : semanticSearchByTag(i)
    \/ \E i \in Slots : semanticSearchResponse(i)
    \/ \E i \in Slots : enhancedSearch(i)
    \/ \E i \in Slots : getDocumentsInsert(i)
    \/ \E i \in Slots, id \in Ids, tag \in Tags : addTagToDocument(i, id, tag)
    \/ \E p \in Paths : EnvCreateFile(p)
    \/ \E p \in Paths : EnvDeleteFile(p)

SpecSearch == Init /\ [][NextSearch]_vars

\* The lexical scorer applied to lists of documents.
NextScorer ==
    \E docs \in ScorerInputs, query \in ScorerQueries : LexicalScorer(docs, query)

SpecScorer == Init /\ [][NextScorer]_vars

\* The operations that change the index, with writes that may fail and an
\* extension host that may stop and be activated again.
NextPersist ==
    \/ \E i \in Slots, id \in Ids, tag \in Tags : addTagToDocument(i, id, tag)
    \/ \E i \in Slots, id \in Ids, tag \in Tags : removeTagFromDocument(i, id, tag)
    \/ \E i \in Slots, t1 \in Tags, t2 \in Tags : renameTag(i, t1, t2)
    \/ \E i \in Slots, tag \in Tags : deleteTag(i, tag)
    \/ \E i \in Slots, p \in Paths, n \in {NameA, NameB} : renameDocument(i, p, n)
    \/ \E i \in Slots : getDocuments(i)
    \/ \E i \in Slots : getDocumentsInsert(i)
    \/ \E i \in Slots, p \in Paths : onDidCreate(i, p)
    \/ \E i \in Slots : onDidCreateInsert(i)
    \/ \E i \in Slots, p \in Paths : onDidDelete(i, p)
    \/ \E i \in Slots, p \in Paths : onDidChange(i, p)
    \/ Stop
    \/ Restart

SpecPersist == InitPersist /\ [][NextPersist]_vars

\* The chat turns of the assistant.
NextChat ==
    \/ \E prompt \in Prompts, editor \in Editors : handleGeneral(prompt, editor)
    \/ \E reply \in GraphReplies : handleGeneralGraph(reply)
    \/ \E reply \in SearchReplies : handleGeneralSearch(reply)
    \/ \E ok \in BOOLEAN : handleGeneralChat(ok)

SpecChat == Init /\ [][NextChat]_vars

\* The batch commands and their cancellation.
NextBatch ==
    \/ \E i \in Slots : reindexAll(i)
    \/ \E i \in Slots : getDocumentsInsert(i)
    \/ \E i \in Slots : reindexAllItem(i)
    \/ \E i \in Slots, targets \in BatchTargets : runOcrCommand(i, targets)
    \/ \E i \in Slots : runOcrCommandItem(i)
    \/ \E i \in Slots : batchOcrResponse(i)
    \/ \E i \in Slots : batchIndexResponse(i)
    \/ \E i \in Slots : CancelBatch(i)

SpecBatch == Init /\ [][NextBatch]_vars

\* The watcher and the scans that read the index, on a filesystem that
\* changes.
NextWatch ==
    \/ \E i \in Slots, p \in Paths : onDidCreate(i, p)
    \/ \E i \in Slots : onDidCreateInsert(i)
    \/ \E i \in Slots, p \in Paths : onDidDelete(i, p)
    \/ \E i \in Slots, p \in Paths : onDidChange(i, p)
    \/ \E i \in Slots : getDocumentCount(i)
    \/ \E i \in Slots : getDocumentCountReturn(i)
    \/ \E i \in Slots, limit \in 0..MaxLimit : getRecentDocuments(i, limit)
    \/ \E i \in Slots : getRecentDocumentsReturn(i)
    \/ \E i \in Slots : getDocumentsInsert(i)
    \/ \E p \in Paths : EnvCreateFile(p)
    \/ \E p \in Paths : EnvDeleteFile(p)
    \/ \E p \in Paths : EnvModifyFile(p)

SpecWatch == Init /\ [][NextWatch]_vars

\* ------------------------------------------------------------------ properties

\* C1: after any sequence of addTag, removeTag, renameTag, deleteTag and
\* autoTag calls, started from tag lists without duplicates, no record's tag
\* list holds the same value twice
C1_TagsHaveNoDuplicates ==
    \A p \in DOMAIN cache : NoDuplicates(TagsOf(Mem, cache[p]))

\* C2: under any interleaving of scans, watcher events and renames the index
\* holds at most one record per path and every record is stored under the
\* key equal to its own path field
C2_KeyIsRecordPath ==
    /\ \A p \in DOMAIN cache : heap[cache[p]].path = p
    /\ \A p, q \in DOMAIN cache :
          heap[cache[p]].path = heap[cache[q]].path => p = q

\* a rename has moved a record to its new path and returned
C2_RecordRenamed ==
    /\ last.op = "renameDocument" /\ last.fired
    /\ last.path \notin DOMAIN cache
    /\ \E p \in DOMAIN cache : heap[cache[p]].name # Basename(last.path)

\* C3: every mutation of the index is persisted before control is yielded:
\* wherever a task is suspended or has returned, the index file holds what
\* the in-memory index holds
C3_PersistedBeforeYield ==
    ~writeFailed => disk = Serialize(Mem)

\* C4: a create handler that passed the not-in-store check and then finds a
\* record stored for its path (a duplicate notification got there first)
\* leaves that record's tags and ocrText as they are
C4_CreateKeepsStoredRecord ==
    [][\A i \in Slots :
          (/\ task[i].op = "onDidCreate" /\ task[i].pc = "created"
           /\ task'[i] = IdleTask
           /\ task[i].path \in DOMAIN cache)
          => LET p == task[i].path
             IN  /\ p \in DOMAIN cache'
                 /\ arrs'[heap'[cache'[p]].tags] = arrs[heap[cache[p]].tags]
                 /\ heap'[cache'[p]].ocrText = heap[cache[p]].ocrText]_vars

\* C9: addTag, removeTag, autoTag and autoRename called with an id that
\* decodes to an untracked path end with FILE_NOT_FOUND
C9_UntrackedIdIsAnError ==
    (/\ last.op \in {"addTag", "removeTag", "autoTagDocument", "autoRenameDocument"}
     /\ ~last.found)
    => last.outcome = "FILE_NOT_FOUND"

\* C10 as stated: addTag(d, x) directly followed by removeTag(d, x) restores
\* the tag set d had before, for every tag x
C10_RoundTripAnyTag ==
    rt.stage = "removed" => SeqToSet(rt.after) = SeqToSet(rt.before)

\* C10: addTag(d, x) directly followed by removeTag(d, x) restores the tags d
\* had before, for every tag x that d did not carry already
C10_RoundTripNewTag ==
    (rt.stage = "removed" /\ ~SeqIncludes(rt.before, rt.tag))
    => rt.after = rt.before

\* a new tag has been added to a tagged record and removed again
C10_NewTagAddedAndRemoved ==
    /\ rt.stage = "removed"
    /\ ~SeqIncludes(rt.before, rt.tag)
    /\ rt.before # <<>>

\* the records of the index as a reader sees them, in PathOrder
StoreDocs ==
    LET paths == CachePaths(cache)
    IN  [k \in 1..Len(paths) |-> DocView(Mem, cache[paths[k]])]

\* a call of semanticSearch returns or throws in this step
SearchEnds == last' # last /\ last'.op = "semanticSearch"

\* C5: when the remote call fails, semanticSearch does not raise and returns
\* what the Lexical Scorer gives over the records of the index
C5_FallbackScoresTheIndex ==
    [][(SearchEnds /\ last'.remote = "failed")
       => /\ last'.outcome = "ok"
          /\ SeqToSet(last'.result)
               = SeqToSet(enhancedSearchResults(StoreDocs', last'.query))]_vars

\* C6: whatever the query and the outcome of the remote call, the list
\* semanticSearch returns is in descending order of score and has at most
\* 10 results
C6_SortedAndCapped ==
    last.op = "semanticSearch"
    => /\ Len(last.result) <= SearchLimit
       /\ \A k \in 1..(Len(last.result) - 1) :
             ~RatLess(last.result[k].score, last.result[k + 1].score)

\* C7: a query tag:<value> never calls the backend and returns exactly the
\* records whose tags hold <value>, each with score 1.0 and the snippet
\* "Tag Match: <value>"
C7_TagQueryReturnsTagged ==
    [][(SearchEnds /\ StartsWith(last'.query, TagPrefix))
       => LET value == Trim(SubstringFrom(last'.query, 4))
              result == last'.result
          IN  /\ last'.outcome = "ok"
              /\ last'.remote = "none"
              /\ \A k \in 1..Len(result) :
                    /\ RatEq(result[k].score, Rat(1, 1))
                    /\ result[k].snippet = TagMatch \o value
              /\ {result[k].document : k \in 1..Len(result)}
                   = {d \in SeqToSet(StoreDocs') : SeqIncludes(d.tags, value)}]_vars

\* C8: no step of a semanticSearch call changes the in-memory index or the
\* index file, untracked files under the root or not
C8_SearchLeavesIndexAlone ==
    [][(\E i \in Slots :
           /\ task'[i] # task[i]
           /\ "semanticSearch" \in {task[i].op, task'[i].op})
       => /\ Serialize(Mem)' = Serialize(Mem)
          /\ disk' = disk]_vars

\* C11: addTag(d, x) directly followed by addTag(d, x) leaves the tags of d
\* as the first call left them (same tags, same number), and the second call
\* changes nothing
C11_AddTagTwice ==
    (rt.stage = "added" /\ rt.twice)
    => /\ rt.after = rt.first
       /\ rt.after = rt.before
       /\ Len(rt.after) = Len(rt.first)

\* the same tag has been added twice in a row to a record that did not carry it
C11_AddedTwice ==
    /\ rt.stage = "added" /\ rt.twice
    /\ SeqIncludes(rt.first, rt.tag)
    /\ Len(rt.first) >= 2

\* C12: renameTag(old, new) with new # old leaves no record carrying old,
\* leaves new on every record that carried old, leaves every other tag where
\* it was, and returns the number of records that carried old
C12_RenameTagReplacesEverywhere ==
    [][(last' # last /\ last'.op = "renameTag" /\ last'.tag # last'.query)
       => LET old == last'.tag
              new == last'.query
              before(p) == arrs[heap[cache[p]].tags]
              after(p) == arrs'[heap'[cache'[p]].tags]
          IN  /\ DOMAIN cache' = DOMAIN cache
              /\ \A p \in DOMAIN cache :
                    /\ ~SeqIncludes(after(p), old)
                    /\ SeqIncludes(before(p), old) => SeqIncludes(after(p), new)
                    /\ SeqToSet(after(p)) \ {old, new} = SeqToSet(before(p)) \ {old, new}
              /\ last'.count
                   = Cardinality({p \in DOMAIN cache : SeqIncludes(before(p), old)})]_vars

\* the operations that change the index
MutatingOps ==
    {"addTag", "removeTag", "renameTag", "deleteTag", "renameDocument",
     "getDocuments", "onDidCreate", "onDidDelete", "onDidChange"}

\* C13: when a tag operation, renameDocument, a scan or a watcher handler
\* returns and no write of the index file has failed, the index file holds
\* the records and tags that the in-memory index holds at that moment
C13_PersistedAtReturn ==
    [][(last' # last /\ last'.op \in MutatingOps /\ last'.outcome = "ok"
            /\ ~writeFailed')
       => disk' = Serialize(Mem)']_vars

\* C14: the index file is never left partially written: whenever the
\* extension host stops during saveDocumentsCache, the file holds the whole
\* previous index or the whole new index
C14_IndexFileNeverPartial ==
    file = "whole"

\* C15: a failed write of the index file is not raised to the caller (the
\* call returns normally), the in-memory index keeps the mutation (and is
\* what globalState receives), the index file is left as it was, and the
\* next write that succeeds stores the whole in-memory index
C15_WriteFailureKeepsMemory ==
    [][/\ (up /\ up' /\ nEnv' > nEnv)
          => /\ writeFailed' /\ disk' = disk
             /\ last'.outcome = "ok" /\ last'.op \in MutatingOps
             /\ gstate' = Serialize(Mem)'
             /\ last'.op \in {"addTag", "onDidCreate"} => last'.path \in DOMAIN cache'
             /\ last'.op = "addTag"
                   => SeqIncludes(arrs'[heap'[cache'[last'.path]].tags], last'.tag)
             /\ (last'.op = "removeTag" /\ last'.path \in DOMAIN cache')
                   => ~SeqIncludes(arrs'[heap'[cache'[last'.path]].tags], last'.tag)
             /\ last'.op = "onDidDelete" => last'.path \notin DOMAIN cache'
       /\ (up /\ up' /\ writeFailed /\ ~writeFailed') => disk' = Serialize(Mem)'
       /\ (up /\ up' /\ writeFailed /\ writeFailed') => disk' = disk]_vars

\* a write has failed while a tag was added: the call has returned, the tag
\* is in memory and not in the index file
C15_AddTagWriteFailed ==
    /\ up /\ writeFailed
    /\ last.op = "addTag" /\ last.outcome = "ok" /\ last.path \in DOMAIN cache
    /\ SeqIncludes(TagsOf(Mem, cache[last.path]), last.tag)
    /\ last.path \in DOMAIN disk /\ ~SeqIncludes(disk[last.path].tags, last.tag)

\* C16: what loadDocumentsCache puts into memory is the persisted record set,
\* createdAt and modifiedAt being Dates of the persisted instants, whether
\* it was read from the index file or from the globalState copy
C16_LoadRestoresPersisted ==
    [][(~up /\ up')
       => LET persisted == IF file = "whole" THEN disk ELSE gstate
          IN  /\ DOMAIN cache' = DOMAIN persisted
              /\ \A p \in DOMAIN persisted :
                    LET d == heap'[cache'[p]]
                    IN  [d EXCEPT !.tags = arrs'[d.tags]]
                          = [persisted[p] EXCEPT !.createdAt = Date(@.iso),
                                                 !.modifiedAt = Date(@.iso)]]_vars

\* the positions in chat.calls of the events named what
CallsOf(what) == {k \in 1..Len(chat.calls) : chat.calls[k].what = what}

\* kw occurs in s
Occurs(kw, s) ==
    \E i \in 1..Len(s) :
        /\ i + Len(kw) - 1 <= Len(s)
        /\ \A j \in 1..Len(kw) : s[i + j - 1] = kw[j]

\* C17: handleGeneral asks the knowledge graph if and only if the lowercased
\* prompt contains one of the structured keywords; the graph query is then
\* issued once and answered before semanticSearch is called; the prompt
\* "Fasse das zusammen" never leads to a graph query
C17_GraphQueryIffKeyword ==
    chat.pc # "idle"
    => /\ (CallsOf("queryKnowledgeGraph") # {})
            <=> (\E kw \in SeqToSet(structuredKeywords) : Occurs(kw, ToLowerCase(chat.prompt)))
       /\ Cardinality(CallsOf("queryKnowledgeGraph")) <= 1
       /\ \A g \in CallsOf("queryKnowledgeGraph"), v \in CallsOf("semanticSearch") :
             \E a \in CallsOf("queryKnowledgeGraph answered") : g < a /\ a < v
       /\ chat.prompt = PromptFasse => CallsOf("queryKnowledgeGraph") = {}

\* a turn for "Wer ist das?" has ended: the graph was asked, it answered,
\* and then semanticSearch was called
C17_GraphThenSearch ==
    /\ chat.pc = "done" /\ chat.prompt = PromptWer
    /\ Len(chat.calls) = 4
    /\ chat.calls[1].what = "queryKnowledgeGraph" /\ chat.calls[1].query = "person"
    /\ chat.calls[2].what = "queryKnowledgeGraph answered"
    /\ chat.calls[3].what = "semanticSearch"

\* C18: in every turn semanticSearch is called exactly once, with the prompt,
\* whether the graph was not asked, answered with rows, answered with nothing
\* or failed; after a failed graph query the turn goes on to the search and
\* to the generator
C18_SearchCalledOnce ==
    /\ chat.pc \in {"search", "chat", "done"}
          => /\ Cardinality(CallsOf("semanticSearch")) = 1
             /\ \A v \in CallsOf("semanticSearch") : chat.calls[v].prompt = chat.prompt
    /\ chat.pc \in {"idle", "graph"} => CallsOf("semanticSearch") = {}
    /\ chat.pc \in {"chat", "done"} => Cardinality(CallsOf("chat")) = 1
    /\ (chat.pc = "done" /\ chat.result = "error") => CallsOf("chat") # {}

\* a turn whose graph query failed has ended with the generator's answer
\* and with references to documents found by the search
C18_GraphFailedTurnEnded ==
    /\ chat.pc = "done" /\ chat.useGraphRAG /\ ~chat.graph.ok
    /\ CallsOf("queryKnowledgeGraph answered") # {}
    /\ chat.result = "success" /\ Len(chat.references) > 0

C20_NoItemAfterCancel ==
    [][\A i \in Slots :
          (task[i].op = "reindexAll" /\ batch[i].cancelled /\ batch'[i].cancelled)
          => batch'[i].started = batch[i].started]_vars

\* C21: reindexAll goes through every scanned document whatever fails: the
\* counts it returns add up to the number of documents, and failed counts
\* the documents whose OCR or indexing did not succeed
C21_ReindexCounts ==
    [][\A i \in Slots :
          (task[i].op = "reindexAll" /\ task[i].pc = "scanned" /\ task'[i].op = "idle")
          => /\ last'.op = "reindexAll" /\ last'.outcome = "ok"
             /\ last'.result[1] + last'.result[2] = Len(batch[i].started)
             /\ last'.result[2] = batch[i].errors]_vars

\* the number of records in the index
RecordCount == Cardinality(DOMAIN cache)

\* the supported files under the root
SupportedFiles == {p \in Paths : fs[p].exists /\ isSupportedFile(p)}

\* C22: the create handler adds exactly one record for a supported file that
\* is not tracked, the delete handler removes exactly one for a tracked path,
\* a create for an unsupported extension changes nothing; no scan is needed,
\* and getDocumentCount counts the records, adding none, whenever the index
\* tracks just the supported files
C22_WatcherIncrementality ==
    [][/\ \A i \in Slots :
            (/\ task[i].op = "onDidCreate" /\ task[i].pc = "created" /\ task'[i] = IdleTask
             /\ task[i].path \notin DOMAIN cache)
            => /\ RecordCount' = RecordCount + 1
               /\ DOMAIN cache' = DOMAIN cache \cup {task[i].path}
               /\ isSupportedFile(task[i].path)
       /\ (last' # last /\ last'.op = "onDidDelete" /\ last'.path \in DOMAIN cache)
            => /\ RecordCount' = RecordCount - 1
               /\ DOMAIN cache' = DOMAIN cache \ {last'.path}
       /\ (last' # last /\ last'.op = "onDidCreate" /\ ~isSupportedFile(last'.path))
            => /\ cache' = cache /\ heap' = heap /\ arrs' = arrs /\ disk' = disk
               /\ task' = task /\ ~last'.fired
       /\ \A i \in Slots :
            (/\ task[i] = IdleTask /\ task'[i].op = "getDocumentCount"
             /\ DOMAIN cache = SupportedFiles)
            => /\ task'[i].pc = "scanned" /\ cache' = cache
               /\ Len(task'[i].documents) = RecordCount
       /\ \A i \in Slots :
            (task[i].op = "getDocumentCount" /\ task[i].pc = "scanned" /\ task'[i] = IdleTask)
            => last'.count = Len(task[i].documents)]_vars

\* a file was created under the root and the create handler has added its
\* record to the one that was there
C22_RecordCreated ==
    /\ last.op = "onDidCreate" /\ last.fired /\ last.path \in DOMAIN cache
    /\ RecordCount = 2 /\ nEnv = 1 /\ SupportedFiles = DOMAIN cache

TokenMatches(doc, term) ==
    \/ Includes(ToLowerCase(doc.name), term)
    \/ \E k \in 1..Len(doc.tags) : Includes(ToLowerCase(doc.tags[k]), term)
    \/ doc.ocrText # Undefined /\ Includes(ToLowerCase(doc.ocrText), term)

DocMatches(doc, terms) == \E k \in 1..Len(terms) : TokenMatches(doc, terms[k])

\* every result of the scorer carries min(accumulated / tokenCount, 1.0), a
\* score in (0, 1]; a query without a token longer than one character gives
\* no result
ScorerScores ==
    LET terms == QueryTerms(last.query)
        n == Len(terms)
    IN  /\ \A k \in 1..Len(last.result) :
              LET r == last.result[k]
                  acc == DocScore(r.document, terms)
              IN  /\ r.score.den > 0
                  /\ r.score.num * 10 * n = Min(acc, 10 * n) * r.score.den
                  /\ r.score.num > 0
                  /\ r.score.num <= r.score.den
        /\ (n = 0 => last.result = <<>>)

\* C24 as stated: the scorer returns a document if and only if a query token
\* is contained in its name, a tag or its OCR text, with the score
\* min(accumulated / tokenCount, 1.0) in (0, 1]
C24_ReturnedIffMatching ==
    last.op = "enhancedSearch"
    => /\ {last.result[k].document : k \in 1..Len(last.result)}
            = {d \in SeqToSet(last.scanned) : DocMatches(d, QueryTerms(last.query))}
       /\ ScorerScores

\* C24: the scorer returns only documents in which a query token is
\* contained (name, tag or OCR text, lowercased), all of them when at most 10
\* match and otherwise 10 of them that score at least as much as every
\* matching document left out; every score is min(accumulated / tokenCount,
\* 1.0) and lies in (0, 1]; a query with no token longer than one character
\* returns nothing
C24_MatchingUpToTen ==
    last.op = "enhancedSearch"
    => LET terms == QueryTerms(last.query)
           n == Len(terms)
           matching == {d \in SeqToSet(last.scanned) : DocMatches(d, terms)}
           returned == {last.result[k].document : k \in 1..Len(last.result)}
       IN  /\ returned \subseteq matching
           /\ NoDuplicates(last.result)
           /\ Len(last.result) = Min(SearchLimit, Cardinality(matching))
           /\ \A d \in matching \ returned : \A k \in 1..Len(last.result) :
                 Min(DocScore(d, terms), 10 * n) * last.result[k].score.den
                     <= last.result[k].score.num * 10 * n
           /\ ScorerScores

\* more than ten documents match and ten are returned
C24_ElevenMatch ==
    /\ last.op = "enhancedSearch"
    /\ Len(last.result) = SearchLimit
    /\ \E d \in SeqToSet(last.scanned) :
          /\ DocMatches(d, QueryTerms(last.query))
          /\ \A k \in 1..Len(last.result) : last.result[k].document # d

\* two documents that differ at most in the letter case of name, tags and
\* OCR text
SameButCase(d, e) ==
    /\ ToLowerCase(d.name) = ToLowerCase(e.name)
    /\ Len(d.tags) = Len(e.tags)
    /\ \A k \in 1..Len(d.tags) : ToLowerCase(d.tags[k]) = ToLowerCase(e.tags[k])
    /\ (d.ocrText = Undefined) = (e.ocrText = Undefined)
    /\ ToLowerCase(d.ocrText) = ToLowerCase(e.ocrText)

\* the documents and scores of a result list, in order
ScoresOf(result) ==
    [k \in 1..Len(result) |-> <<result[k].document.path, result[k].score>>]

\* C25: documents that differ only in letter case get the same score from
\* the scorer (and are returned or left out together), and a query gives the
\* same documents and scores whatever its own letter case
C25_CaseInsensitive ==
    last.op = "enhancedSearch"
    => /\ \A j, k \in 1..Len(last.result) :
             SameButCase(last.result[j].document, last.result[k].document)
             => RatEq(last.result[j].score, last.result[k].score)
       /\ Len(last.result) < SearchLimit
          => \A d, e \in SeqToSet(last.scanned) :
                (SameButCase(d, e) /\ \E k \in 1..Len(last.result) : last.result[k].document = d)
                => \E k \in 1..Len(last.result) : last.result[k].document = e
       /\ \A q \in ScorerQueries :
             ToLowerCase(q) = ToLowerCase(last.query)
             => ScoresOf(enhancedSearchResults(last.scanned, q)) = ScoresOf(last.result)

\* ab.txt and AB.txt have been scored for a query in capitals and both have
\* the score 0.6
C25_BothCasesScored ==
    /\ last.op = "enhancedSearch"
    /\ last.query = <<"A", "B">>
    /\ \E j, k \in 1..Len(last.result) :
          /\ last.result[j].document.name = NameA
          /\ last.result[k].document.name = NameUp
          /\ RatEq(last.result[j].score, Rat(6, 10))
          /\ RatEq(last.result[k].score, Rat(6, 10))

\* C26: when the backend answers, item k of the answer becomes result k with
\* the score 0.5 for a missing distance and 1 / (1 + distance) otherwise (1
\* for the distance 0), and with the first 200 characters of its text as the
\* snippet
C26_DistanceToScore ==
    (last.op = "semanticSearch" /\ last.remote = "ok")
    => /\ Len(last.result) = Len(last.response)
       /\ \A k \in 1..Len(last.response) :
             LET r == last.response[k]
                 res == last.result[k]
             IN  /\ res.document.id = r.id
                 /\ IF r.distance.null THEN RatEq(res.score, Rat(1, 2))
                    ELSE RatEq(res.score, Rat(r.distance.den, r.distance.den + r.distance.num))
                 /\ r.distance = Distance(0, 1) => RatEq(res.score, Rat(1, 1))
                 /\ r.text # Undefined
                    => res.snippet = SubSeq(r.text, 1, Min(SnippetLimit, Len(r.text)))

\* C27: after renameDocument has moved a tracked record, and while the
\* watcher reports the create of the new path and the delete of the old path
\* in either order, there is no record at the old path and one record at the
\* new path, with the tags, OCR text, type and creation date of the original;
\* a renameDocument that throws (source missing, target there) leaves the
\* index and the index file as they were
C27_RenameSurvivesWatcher ==
    /\ [](rt.stage = "renamed"
           => /\ rt.path \notin DOMAIN cache
              /\ rt.to \in DOMAIN cache
              /\ Cardinality({p \in DOMAIN cache : heap[cache[p]].path = rt.to}) = 1
              /\ LET doc == DocView(Mem, cache[rt.to])
                 IN  /\ doc.path = rt.to
                     /\ doc.id = Base64(rt.to)
                     /\ doc.tags = rt.doc.tags
                     /\ doc.ocrText = rt.doc.ocrText
                     /\ doc.type = rt.doc.type
                     /\ doc.createdAt = rt.doc.createdAt)
    /\ [][(last' # last /\ last'.op = "renameDocument" /\ last'.outcome # "ok")
          => /\ last'.outcome \in {"FILE_NOT_FOUND", "INVALID_DOCUMENT"}
             /\ Serialize(Mem)' = Serialize(Mem)
             /\ cache' = cache
             /\ disk' = disk
             /\ fs' = fs]_vars

\* a record with tags and OCR text has been renamed and the watcher has
\* reported both the create and the delete
C27_BothEventsAfterRename ==
    /\ rt.stage = "renamed"
    /\ rt.events = {"create", "delete"}
    /\ Len(rt.doc.tags) = 2
    /\ rt.doc.ocrText = OcrSample

\* the paths of a list of documents, in order
PathsOf(m, os) == [k \in 1..Len(os) |-> m.heap[os[k]].path]

\* C28: a step of a scan (getDocuments) leaves every record of the index as
\* it is (id, tags, OCR text, dates), removes none, and inserts records with
\* no tags for supported paths only; the documents collected and the files
\* still to visit are the supported files listed at the start, and the list
\* returned holds exactly those
C28_ScanFrame ==
    [][((\E i \in Slots : /\ task'[i] # task[i]
                           /\ "getDocuments" \in {task[i].op, task'[i].op})
        \/ (last' # last /\ last'.op = "getDocuments"))
       => /\ \A p \in DOMAIN cache :
                /\ p \in DOMAIN cache'
                /\ DocView(Mem, cache[p])' = DocView(Mem, cache[p])
          /\ \A p \in DOMAIN cache' \ DOMAIN cache :
                /\ isSupportedFile(p)
                /\ TagsOf(Mem, cache[p])' = <<>>
          /\ \A i \in Slots :
                LET before == IF task[i].op = "getDocuments"
                              THEN PathsOf(Mem, task[i].documents) \o task[i].files
                              ELSE scanDirectory(fs)
                IN  /\ (task'[i] # task[i] /\ task'[i].op = "getDocuments")
                       => PathsOf(Mem, task[i].documents)' \o task'[i].files = before
                    /\ (task'[i] # task[i] /\ task[i].op = "getDocuments"
                          /\ task'[i].op = "idle" /\ last'.outcome = "ok")
                       => [k \in 1..Len(last'.scanned) |-> last'.scanned[k].path] = before
          /\ (last' # last /\ last'.op = "getDocuments" /\ last'.outcome = "ok"
                /\ \A i \in Slots : task[i].op # "getDocuments")
             => [k \in 1..Len(last'.scanned) |-> last'.scanned[k].path] = scanDirectory(fs)]_vars

\* the change handler has run for the path last'.path in this step
ChangeHandled ==
    /\ nOps' = nOps + 1
    /\ task' = task
    /\ last'.op = "onDidChange"

\* C29: the change handler, for a tracked supported path, sets the
\* modifiedAt of the record at that path to the file's modification time and
\* changes nothing else of the index, writes the index file and fires the
\* notification; for an untracked or unsupported path it changes nothing,
\* writes nothing and fires nothing
C29_ChangeTouchesModifiedAtOnly ==
    [][ChangeHandled
       => LET p == last'.path
          IN  IF isSupportedFile(p) /\ p \in DOMAIN cache /\ last'.outcome = "ok"
              THEN /\ cache' = cache
                   /\ arrs' = arrs
                   /\ DOMAIN heap' = DOMAIN heap
                   /\ \A o \in DOMAIN heap \ {cache[p]} : heap'[o] = heap[o]
                   /\ \A f \in DOMAIN heap[cache[p]] \ {"modifiedAt"} :
                         heap'[cache[p]][f] = heap[cache[p]][f]
                   /\ heap'[cache[p]].modifiedAt = Date(fs[p].mtime)
                   /\ disk' = Serialize(Mem)'
                   /\ last'.fired
              ELSE /\ cache' = cache /\ arrs' = arrs /\ heap' = heap
                   /\ disk' = disk /\ gstate' = gstate
                   /\ ~last'.fired]_vars

\* a tracked file with tags was written and the change handler has brought
\* the record's modifiedAt up to date
C29_ModifiedAtRefreshed ==
    /\ last.op = "onDidChange" /\ last.fired
    /\ last.path \in DOMAIN cache
    /\ nEnv = 1
    /\ heap[cache[last.path]].modifiedAt = Date(1)
    /\ heap[cache[last.path]].createdAt = Date(0)
    /\ fs[last.path].birthtime = 0
    /\ TagsOf(Mem, cache[last.path]) # <<>>
    /\ disk = Serialize(Mem)

\* C30: a general chat turn calls the generator exactly once, as the last of
\* its calls, after the graph query (if any) was answered and the search has
\* returned or thrown, whichever of the two failed; the turn ends with a
\* result and never with an exception: a failure of the generator comes
\* back as a result with error metadata
C30_GeneratorOnceNeverRaises ==
    /\ chat.pc \in {"chat", "done"}
          => /\ Cardinality(CallsOf("chat")) = 1
             /\ chat.calls[Len(chat.calls)].what = "chat"
             /\ chat.calls[Len(chat.calls)].prompt = chat.prompt
             /\ CallsOf("semanticSearch") # {}
             /\ chat.useGraphRAG
                  => Cardinality(CallsOf("queryKnowledgeGraph answered")) = 1
    /\ chat.pc \in {"idle", "graph", "search"} => CallsOf("chat") = {}
    /\ ~chat.raised
    /\ chat.pc = "done" => chat.result \in {"success", "error"}

\* the graph query, the search and the generator have all failed, and the
\* turn has ended with an error result
C30_EverythingFailed ==
    /\ chat.pc = "done"
    /\ chat.useGraphRAG /\ ~chat.graph.ok /\ ~chat.search.ok
    /\ Cardinality(CallsOf("chat")) = 1
    /\ chat.result = "error" /\ ~chat.raised


====
